---------------------------- MODULE Spec2Model ----------------------------
(***************************************************************************)
(* A model of Phoebe.js (src/unnamed/part_000): the reactive state wrapper,*)
(* the render scheduler, scope resolution, and the <phoebe-for> and        *)
(* <phoebe-if> structural elements.  Each subsystem has its own            *)
(* specification over its own variables; the variables of the other        *)
(* subsystems stay at their initial values.                                *)
(***************************************************************************)
EXTENDS Integers, Sequences, FiniteSets, TLC

VARIABLES
    \* ---- reactive state (state.wrap, part_000:108-152)
    fields,      \* the raw objects: object id -> key -> value
    proxies,     \* proxies[p] is the target handed to new Proxy() for proxy p
    cache,       \* the WeakMap target -> proxy of wrap()
    held,        \* the values user code has obtained from the state
    lastOp       \* what the last operation on the state was and did

stateVars == <<fields, proxies, cache, held, lastOp>>

VARIABLES
    \* ---- scheduler (renderer.schedule, part_000:287-312)
    rerenderEls, \* the Set of pending roots, as its insertion-ordered entry list
    timers,      \* remaining delay (ms) of every outstanding setTimeout
    pc,          \* "idle", "flush" (in the forEach) or "render" (in renderTree)
    idx,         \* number of entries the running forEach has visited
    cur,         \* the element renderTree is traversing
    batchAge,    \* ms since the last setTimeout was armed (capped at Delay)
    early,       \* the running renderTree began before its batch's delay ended
    renderCount, \* traversals that processed each element in the last flush
    firedPending,\* the pending roots when the last timer fired
    flushCalls,  \* schedule calls made while the last flush was running
    outcome      \* how the last flush ended

schedVars == <<rerenderEls, timers, pc, idx, cur, batchAge, early,
               renderCount, firedPending, flushCalls, outcome>>

VARIABLES
    \* ---- scope resolution (registry, renderer.buildScope, part_000:24-44, 319-348)
    loopVar,           \* the var attribute of the <phoebe-for>
    withVar,           \* the var attribute of each <phoebe-with>
    loopContextValue,  \* registry(el).loopContextValue
    withContextValue,  \* registry(el).withContextValue
    contextAncestors,  \* registry(el).contextAncestors
    scopeOf,           \* the scope processElement built for each element
    walk               \* elements the running renderTree has processed

scopeVars == <<loopVar, withVar, loopContextValue, withContextValue,
               contextAncestors, scopeOf, walk>>

VARIABLES
    \* ---- <phoebe-for> (PhoebeFor, part_000:442-618)
    forKeyed,     \* the element has a key attribute
    forHasVar,    \* the element has a var attribute
    forHasIndex,  \* the element has an index attribute
    isInitDone,   \* the first child is the template
    forChildren,  \* the item elements after the template, in DOM order
    keyElements,  \* #keyElements: undefined, or key -> item element
    itemCtx,      \* registry(item element).loopContextValue
    lastIter,     \* the items of the last render's iterable
    lastRender,   \* whether the last render removed, reordered item elements
    forConnected, \* this.isConnected of the loop element
    cleanupTimeoutHandle, \* the zero-delay cleanup timer is armed
    reattached    \* the last event was an attach that cleared an armed timer

\* an element with phoebe:class and phoebe-class:<name> attributes
VARIABLES
    clsAttrs,       \* el.getAttributeNames(), the phoebe attributes in their order
    elClass,        \* the class names of el's class attribute
    originalClass,  \* registry(el).originalClass
    lastToggle,     \* what each toggle expression evaluated to in the last render
    clsRendered,    \* processElement has run for el
    authorClass,    \* the class names the document gave el
    lastValue       \* what the phoebe:class expression evaluated to in the last render

clsVars == <<clsAttrs, elClass, originalClass, lastToggle, clsRendered,
             authorClass, lastValue>>

\* one renderTree traversal and the expressions it evaluates
VARIABLES
    travDirs,      \* the expressions each element evaluates, in order
    travPc,        \* "idle", "run", "aborted" (an exception left renderTree), "complete"
    travStack,     \* traverseDom's stack, top last
    travCur,       \* the element the callback is processing
    travRan,       \* how many of its expressions each element evaluated in this pass
    travVisited,   \* the elements the callback was called for in this pass
    travSwallowed, \* the exceptions caught and logged in this pass
    travGetThrew   \* a read expression threw in this pass

travVars == <<travDirs, travPc, travStack, travCur, travRan, travVisited,
              travSwallowed, travGetThrew>>

\* <phoebe-timer>
VARIABLES
    timerConnected,  \* the element is in the document
    timerAttrs,      \* its "do" and "every" attributes when it was last attached
    timerHandle,     \* #handle, 0 is undefined
    timerShouldRun,  \* #shouldRun
    timerExpr,       \* #expr
    timerInterval,   \* #interval, in milliseconds
    timerScope,      \* #scope
    windowIntervals, \* the handles of the repeating timers the window runs
    nextHandle,      \* the handle the next setInterval returns
    timerRendered,   \* render ran since the last attachment
    timerExecuted    \* what the last interval callback executed

timerVars == <<timerConnected, timerAttrs, timerHandle, timerShouldRun, timerExpr,
               timerInterval, timerScope, windowIntervals, nextHandle,
               timerRendered, timerExecuted>>

\* an input element with phoebe-bind and phoebe:on<event> attributes
VARIABLES
    bindType,      \* the type attribute of the input element
    bindEvents,    \* the event names of its phoebe:on<event> attributes
    bindState,     \* the value of the state property phoebe-bind names
    elValue,       \* el.value
    elChecked,     \* el.checked
    boundModel,    \* registry(el).boundModel
    boundEvents,   \* registry(el).boundEvents
    bindListeners, \* the input listeners handleBinding added to the element
    evListeners,   \* the listeners handleEvent added, per event name
    bindOp,        \* the last operation: its kind, the input listener runs and
                   \* the expression executions it caused
    bindPrev,      \* the value of the state property before the last operation
    rerendered     \* the element was rendered more than once

bindVars == <<bindType, bindEvents, bindState, elValue, elChecked, boundModel,
              boundEvents, bindListeners, evListeners, bindOp, bindPrev, rerendered>>

\* the first render of a <phoebe-for>: its template
VARIABLES
    tplKids,     \* the child nodes the document gave the loop element
    tplInit,     \* isInitDone
    tplContent,  \* template.content: whether a <div> wraps the nodes, and the nodes
    tplClone,    \* clone.firstElementChild of the last clone: "none", "null", "element"
    tplOutcome   \* how the last render ended: "none", "done", "threw"

tplVars == <<tplKids, tplInit, tplContent, tplClone, tplOutcome>>

\* renderTree over a document whose structural elements change it
VARIABLES
    wKids,     \* the element children of every element
    wContent,  \* the elements in the content of every template
    wRoot,     \* the element renderTree was called with
    wWasOn,    \* that element was in the document when renderTree was called
    wStack,    \* traverseDom's stack, top last
    wOrder,    \* the elements processElement was called for, in order
    wPc        \* "idle", "run", "done"

walkVars == <<wKids, wContent, wRoot, wWasOn, wStack, wOrder, wPc>>

\* event listeners on the item elements of a loop over a state array
VARIABLES
    evState,    \* the array in the state the loop iterates
    evCtx,      \* registry(item element).loopContextValue, per item element
    evPending,  \* a render is scheduled and has not run
    evLast      \* the scope the last listener ran with

evVars == <<evState, evCtx, evPending, evLast>>

\* <phoebe-if>
VARIABLES
    ifInitDone,   \* this.firstChild is the template with role 'if'
    ifContent,    \* template.content.childNodes
    ifLive,       \* the element's child nodes other than the template
    ifFlag,       \* what the if expression evaluates to now
    ifRenders,    \* renders done so far: 0, 1, or 2 for more
    prevShould,   \* shouldShow of the render before the last
    lastShould,   \* shouldShow of the last render
    lastEvent,    \* the event the last render dispatched
    ifEvents,     \* the events dispatched so far, in order
    ifKids        \* the child nodes the document gave the element

ifVars == <<ifInitDone, ifContent, ifLive, ifFlag, ifRenders, prevShould,
            lastShould, lastEvent, ifEvents, ifKids>>

forVars == <<forKeyed, forHasVar, forHasIndex, isInitDone, forChildren,
             keyElements, itemCtx, lastIter, lastRender, forConnected,
             cleanupTimeoutHandle, reattached>>

vars == <<stateVars, schedVars, scopeVars, forVars, ifVars, clsVars, travVars, timerVars, bindVars, tplVars, walkVars, evVars>>

\* what an action of one subsystem leaves alone
notState == <<schedVars, scopeVars, forVars, ifVars, clsVars, travVars, timerVars, bindVars, tplVars, walkVars, evVars>>
notSched == <<stateVars, scopeVars, forVars, ifVars, clsVars, travVars, timerVars, bindVars, tplVars, walkVars, evVars>>
notScope == <<stateVars, schedVars, forVars, ifVars, clsVars, travVars, timerVars, bindVars, tplVars, walkVars, evVars>>
notFor == <<stateVars, schedVars, scopeVars, ifVars, clsVars, travVars, timerVars, bindVars, tplVars, walkVars, evVars>>
notIf == <<stateVars, schedVars, scopeVars, forVars, clsVars, travVars, timerVars, bindVars, tplVars, walkVars, evVars>>
notCls == <<stateVars, schedVars, scopeVars, forVars, ifVars, travVars, timerVars, bindVars, tplVars, walkVars, evVars>>
notTrav == <<stateVars, schedVars, scopeVars, forVars, ifVars, clsVars, timerVars, bindVars, tplVars, walkVars, evVars>>
notTimer == <<stateVars, schedVars, scopeVars, forVars, ifVars, clsVars, travVars, bindVars, tplVars, walkVars, evVars>>
notBind == <<stateVars, schedVars, scopeVars, forVars, ifVars, clsVars, travVars, timerVars, tplVars, walkVars, evVars>>
notTpl == <<stateVars, schedVars, scopeVars, forVars, ifVars, clsVars, travVars, timerVars, bindVars, walkVars, evVars>>
notWalk == <<stateVars, schedVars, scopeVars, forVars, ifVars, clsVars, travVars, timerVars, bindVars, tplVars, evVars>>
notEv == <<stateVars, schedVars, scopeVars, forVars, ifVars, clsVars, travVars, timerVars, bindVars, tplVars, walkVars>>

-----------------------------------------------------------------------------
(***************************************************************************)
(* Reactive state.  A value is a primitive, a raw object, a proxy, a value *)
(* wrap() never wraps (Element, Date, RegExp) or undefined.                *)
(***************************************************************************)
MaxProxies == 3

Objs == {0, 1}            \* object 0 is initialValues
Keys == {"a", "b"}
Prims == {1, 2}

Undef == [t |-> "undef", id |-> 0]
Prim(v) == [t |-> "prim", id |-> v]
Raw(o) == [t |-> "raw", id |-> o]
Proxy(p) == [t |-> "proxy", id |-> p]
Exempt == [t |-> "exempt", id |-> 0]

IsProxy(v) == v.t = "proxy"

\* wrap(target) without the cache lookup
WrapUncached(px, ch, v) ==
    IF v.t \notin {"raw", "proxy"}
    THEN [px |-> px, ch |-> ch, res |-> v]
    ELSE [px |-> Append(px, v), ch |-> ch, res |-> Proxy(Len(px) + 1)]

\* wrap(target): primitives and exempt objects are returned as they are, a
\* cached target gets its cached proxy, any other object a new proxy.
Wrap(px, ch, v) ==
    IF v.t \notin {"raw", "proxy"}
    THEN [px |-> px, ch |-> ch, res |-> v]
    ELSE IF v \in DOMAIN ch
    THEN [px |-> px, ch |-> ch, res |-> Proxy(ch[v])]
    ELSE [px |-> Append(px, v),
          ch |-> ch @@ (v :> Len(px) + 1),
          res |-> Proxy(Len(px) + 1)]

\* ref[k]: a property read on a raw object, or the get trap of a proxy,
\* which reads its target and wraps the result.
RECURSIVE GetVia(_, _, _, _, _)
GetVia(fl, px, ch, ref, k) ==
    IF ref.t = "raw"
    THEN [px |-> px, ch |-> ch, res |-> fl[ref.id][k]]
    ELSE LET inner == GetVia(fl, px, ch, px[ref.id], k)
         IN  Wrap(inner.px, inner.ch, inner.res)

\* ref[k] = v: a property write on a raw object, or the set trap of a
\* proxy: compare the target's old value with the new one, schedule a render
\* when they differ, then Reflect.set on the target.
RECURSIVE SetVia(_, _, _, _, _, _)
SetVia(fl, px, ch, ref, k, v) ==
    IF ref.t = "raw"
    THEN [fl |-> [fl EXCEPT ![ref.id][k] = v], px |-> px, ch |-> ch, sched |-> 0]
    ELSE LET old == GetVia(fl, px, ch, px[ref.id], k)
             inner == SetVia(fl, old.px, old.ch, px[ref.id], k, v)
         IN  [inner EXCEPT !.sched = @ + (IF old.res # v THEN 1 ELSE 0)]

\* key in ref: a proxy without a has trap forwards to its target.
RECURSIVE HasKey(_, _, _, _)
HasKey(fl, px, ref, k) ==
    IF ref.t = "raw" THEN fl[ref.id][k] # Undef ELSE HasKey(fl, px, px[ref.id], k)

\* delete ref[k]: a property delete on a raw object, or the deleteProperty
\* trap of a proxy, which schedules a render when the key was present.
RECURSIVE DeleteVia(_, _, _, _)
DeleteVia(fl, px, ref, k) ==
    IF ref.t = "raw"
    THEN [fl |-> [fl EXCEPT ![ref.id][k] = Undef], sched |-> 0]
    ELSE LET hadKey == HasKey(fl, px, px[ref.id], k)
             inner == DeleteVia(fl, px, px[ref.id], k)
         IN  [inner EXCEPT !.sched = @ + (IF hadKey THEN 1 ELSE 0)]

\* the raw object a value stands for: a proxy's (transitive) target
RECURSIVE Underlying(_, _)
Underlying(px, v) == IF v.t = "proxy" THEN Underlying(px, px[v.id]) ELSE v

\* The initial values the caller passes to Phoebe().
InitialValues ==
    { [o \in Objs |-> [k \in Keys |->
          IF o = 0 /\ k = "a" THEN Raw(1)
          ELSE IF o = 0 /\ k = "b" THEN b0
          ELSE IF o = 1 /\ k = "a" THEN Prim(1)
          ELSE b1]] :
      b0 \in {Prim(1), Raw(1)}, b1 \in {Exempt} }

StateInit ==
    /\ fields \in InitialValues
    /\ proxies = <<Raw(0)>>
    /\ cache = (Raw(0) :> 1)
    /\ held = {Proxy(1)}
    /\ lastOp = [op |-> "init", same |-> FALSE, other |-> FALSE, sched |-> 0]

\* user code evaluates h[k] on a wrapper it holds
ReadProp(h, k) ==
    LET r == GetVia(fields, proxies, cache, h, k) IN
    /\ Len(r.px) <= MaxProxies
    /\ proxies' = r.px
    /\ cache' = r.ch
    /\ held' = IF IsProxy(r.res) THEN held \cup {r.res} ELSE held
    /\ lastOp' = [op |-> "read", same |-> FALSE, other |-> FALSE, sched |-> 0]
    /\ UNCHANGED <<fields, notState>>

\* user code evaluates h[k] = v
WriteProp(h, k, v) ==
    LET r == SetVia(fields, proxies, cache, h, k, v)
        rd == GetVia(fields, proxies, cache, h, k)
    IN
    /\ Len(r.px) <= MaxProxies
    /\ fields' = r.fl
    /\ proxies' = r.px
    /\ cache' = r.ch
    /\ lastOp' = [op |-> "write", same |-> (rd.res = v),
                   other |-> (rd.res # v /\ Underlying(rd.px, rd.res) # v),
                   sched |-> r.sched]
    /\ UNCHANGED <<held, notState>>

\* user code evaluates delete h[k]
DeleteProp(h, k) ==
    LET r == DeleteVia(fields, proxies, h, k) IN
    /\ fields' = r.fl
    /\ lastOp' = [op |-> "delete", same |-> FALSE, other |-> FALSE, sched |-> r.sched]
    /\ UNCHANGED <<proxies, cache, held, notState>>

\* the values user code writes: primitives and what it has read from the state
Writable == {Prim(v) : v \in Prims} \cup held

StateNext ==
    \/ \E h \in held, k \in Keys : ReadProp(h, k)
    \/ \E h \in held, k \in Keys, v \in Writable : WriteProp(h, k, v)
    \/ \E h \in held, k \in Keys : DeleteProp(h, k)

-----------------------------------------------------------------------------
(***************************************************************************)
(* Scheduler.  The document is a small tree under rootNode; "a" and "b"    *)
(* are structural (PhoebeElement) children of the root.                    *)
(***************************************************************************)
Delay == 33
TickMs == 11
MaxFlushCalls == 2
MaxTimers == 2

rootNode == "r"
Els == {"r", "a", "b"}
PhoebeEls == {"a", "b"}
parentElement == [e \in Els |-> IF e = "r" THEN "none" ELSE "r"]

Hole == "empty"

\* Node.contains: x is y or an ancestor of y
RECURSIVE Contains(_, _)
Contains(x, y) ==
    IF x = y THEN TRUE
    ELSE IF y \notin Els \/ parentElement[y] = "none" THEN FALSE
    ELSE Contains(x, parentElement[y])

\* the elements renderTree(el) visits
Subtree(el) == {e \in Els : Contains(el, e)}

\* the members of the Set
Pending(list) == {list[i] : i \in 1..Len(list)} \ {Hole}

\* Set.delete: the entry becomes empty and is skipped by a running forEach
SetDelete(list, el) == [i \in 1..Len(list) |-> IF list[i] = el THEN Hole ELSE list[i]]

\* the entry list once no forEach is running
Compact(list) == SelectSeq(list, LAMBDA e : e # Hole)

\* schedule(el) that arms a timer with every element it adds
ScheduleArmsOnAdd(list, el) ==
    IF el \notin Pending(list) /\ ~ \E p \in Pending(list) : Contains(p, el)
    THEN [list |-> Append(list, el), arm |-> TRUE]
    ELSE [list |-> list, arm |-> FALSE]

\* schedule(el): the new entry list and whether a timer is armed
Schedule(list, el) ==
    IF Pending(list) = {}
    THEN [list |-> Append(list, el), arm |-> TRUE]
    ELSE IF el \notin Pending(list) /\ ~ \E p \in Pending(list) : Contains(p, el)
    THEN [list |-> Append(list, el), arm |-> FALSE]
    ELSE [list |-> list, arm |-> FALSE]

SchedInit ==
    /\ rerenderEls = <<>>
    /\ timers = <<>>
    /\ pc = "idle"
    /\ idx = 0
    /\ cur = "none"
    /\ batchAge = Delay
    /\ early = FALSE
    /\ renderCount = [e \in Els |-> 0]
    /\ firedPending = {}
    /\ flushCalls = 0
    /\ outcome = "none"

\* a call of schedule(el) and its setTimeout
DoSchedule(el) ==
    LET r == Schedule(rerenderEls, el) IN
    /\ r.arm => Len(timers) < MaxTimers
    /\ rerenderEls' = r.list
    /\ timers' = IF r.arm THEN Append(timers, Delay) ELSE timers
    /\ batchAge' = IF r.arm THEN 0 ELSE batchAge

\* the record of the last flush is dropped when the next window's calls begin
NewWindow ==
    /\ renderCount' = [e \in Els |-> 0]
    /\ firedPending' = {}
    /\ flushCalls' = 0
    /\ outcome' = "none"

\* a value-changing write to the state outside a flush (set trap)
Mutate ==
    /\ pc = "idle"
    /\ DoSchedule(rootNode)
    /\ NewWindow
    /\ UNCHANGED <<pc, idx, cur, early, notSched>>

\* a structural element is constructed, or a component has loaded
Construct(el) ==
    /\ pc = "idle"
    /\ DoSchedule(el)
    /\ NewWindow
    /\ UNCHANGED <<pc, idx, cur, early, notSched>>

Max(x, y) == IF x > y THEN x ELSE y
Min(x, y) == IF x < y THEN x ELSE y

\* time passes
Tick ==
    /\ \/ timers # <<>> /\ timers[Len(timers)] > 0
       \/ batchAge < Delay
    /\ timers' = [i \in 1..Len(timers) |-> Max(0, timers[i] - TickMs)]
    /\ batchAge' = Min(Delay, batchAge + TickMs)
    /\ UNCHANGED <<rerenderEls, pc, idx, cur, early, renderCount, firedPending,
                   flushCalls, outcome, notSched>>

\* an expired timer's callback starts: rerenderEls.forEach(...)
TimerFire ==
    /\ pc = "idle"
    /\ timers # <<>> /\ timers[1] = 0
    /\ timers' = Tail(timers)
    /\ pc' = "flush"
    /\ idx' = 0
    /\ renderCount' = [e \in Els |-> 0]
    /\ firedPending' = Pending(rerenderEls)
    /\ flushCalls' = 0
    /\ outcome' = "running"
    /\ UNCHANGED <<rerenderEls, cur, batchAge, early, notSched>>

\* the forEach visits its next entry: delete it, then renderTree(it)
FlushStep ==
    /\ pc = "flush"
    /\ idx < Len(rerenderEls)
    /\ idx' = idx + 1
    /\ IF rerenderEls[idx + 1] = Hole
       THEN UNCHANGED <<rerenderEls, pc, cur, early, notSched>>
       ELSE /\ rerenderEls' = SetDelete(rerenderEls, rerenderEls[idx + 1])
            /\ cur' = rerenderEls[idx + 1]
            /\ pc' = "render"
            /\ early' = (batchAge < Delay)
    /\ UNCHANGED <<timers, batchAge, renderCount, firedPending, flushCalls, outcome, notSched>>

\* during renderTree an expression writes the state (el = rootNode) or a
\* structural element is constructed (clone of a loop template)
RenderSchedule(el) ==
    /\ pc = "render"
    /\ flushCalls < MaxFlushCalls
    /\ DoSchedule(el)
    /\ flushCalls' = flushCalls + 1
    /\ UNCHANGED <<pc, idx, cur, early, renderCount, firedPending, outcome, notSched>>

\* renderTree(cur) returns: every element of the subtree was processed
RenderDone ==
    /\ pc = "render"
    /\ renderCount' = [e \in Els |->
                          IF e \in Subtree(cur) THEN renderCount[e] + 1
                          ELSE renderCount[e]]
    /\ pc' = "flush"
    /\ cur' = "none"
    /\ early' = FALSE
    /\ UNCHANGED <<rerenderEls, timers, idx, batchAge, firedPending, flushCalls, outcome, notSched>>

\* js.get rethrows: renderTree, the forEach and the timer callback are left
RenderThrow ==
    /\ pc = "render"
    /\ pc' = "idle"
    /\ cur' = "none"
    /\ idx' = 0
    /\ early' = FALSE
    /\ rerenderEls' = Compact(rerenderEls)
    /\ outcome' = "aborted"
    /\ UNCHANGED <<timers, batchAge, renderCount, firedPending, flushCalls, notSched>>

\* the forEach has visited every entry: the timer callback returns
FlushEnd ==
    /\ pc = "flush"
    /\ idx = Len(rerenderEls)
    /\ pc' = "idle"
    /\ idx' = 0
    /\ rerenderEls' = Compact(rerenderEls)
    /\ outcome' = "complete"
    /\ UNCHANGED <<timers, cur, batchAge, early, renderCount, firedPending, flushCalls, notSched>>

SchedNext ==
    \/ Mutate
    \/ \E el \in PhoebeEls : Construct(el)
    \/ Tick
    \/ TimerFire
    \/ FlushStep
    \/ \E el \in Els : RenderSchedule(el)
    \/ RenderDone
    \/ RenderThrow
    \/ FlushEnd

-----------------------------------------------------------------------------
(***************************************************************************)
(* Scope resolution.  The document under rootNode:                         *)
(*   <phoebe-for> for                                                      *)
(*     item               the rendered loop item                           *)
(*       <phoebe-with> with1                                               *)
(*         <phoebe-with> with2                                             *)
(*           <phoebe-text> leaf                                            *)
(*       <phoebe-text> sib                                                 *)
(***************************************************************************)
Names == {"x", "y"}
ScopeEls == {"for", "item", "with1", "with2", "leaf", "sib"}
WithEls == {"with1", "with2"}
Preorder == <<"for", "item", "with1", "with2", "leaf", "sib">>
scopeParent ==
    [e \in ScopeEls |->
        CASE e = "for" -> rootNode
          [] e = "item" -> "for"
          [] e = "with1" -> "item"
          [] e = "with2" -> "with1"
          [] e = "leaf" -> "with2"
          [] e = "sib" -> "item"]

LoopItems == {1, 2}
WithValues == {3, 4}

Absent == 0
EmptyScope == [n \in Names |-> Absent]
\* a registry slot: undefined, or an object of bindings
NoCtx == [def |-> FALSE, b |-> EmptyScope]
Ctx(name, v) == [def |-> TRUE, b |-> [n \in Names |-> IF n = name THEN v ELSE Absent]]
\* registry(el).contextAncestors: undefined, or a list (false when empty)
NoMemo == [def |-> FALSE, list |-> <<>>]

\* { ...scope, ...ctx }
Spread(scope, ctx) == [n \in Names |-> IF ctx.b[n] # Absent THEN ctx.b[n] ELSE scope[n]]

\* every element of the document that has a loop or with context
CollectAllContextEls(lc, wc, parent) ==
    SelectSeq(Preorder, LAMBDA e : lc[e].def \/ wc[e].def)

\* the while loop of buildScope: el and its ancestors below rootNode that
\* have a loop or with context, nearest first
RECURSIVE CollectContextEls(_, _, _)
CollectContextEls(lc, wc, parent) ==
    IF parent = rootNode THEN <<>>
    ELSE (IF lc[parent].def \/ wc[parent].def THEN <<parent>> ELSE <<>>)
         \o CollectContextEls(lc, wc, scopeParent[parent])

\* the for..of loop of buildScope over the memoized ancestors, from index i
RECURSIVE MergeContexts(_, _, _, _, _)
MergeContexts(lc, wc, ancestors, i, scope) ==
    IF i > Len(ancestors) THEN scope
    ELSE LET anc == ancestors[i]
             s1 == IF lc[anc].def THEN Spread(scope, lc[anc]) ELSE scope
             s2 == IF wc[anc].def THEN Spread(s1, wc[anc]) ELSE s1
         IN  MergeContexts(lc, wc, ancestors, i + 1, s2)

\* registry(el).contextAncestors after buildScope(el)
Memoized(lc, wc, ca, el) ==
    IF ~ ca[el].def
    THEN [def |-> TRUE, list |-> CollectContextEls(lc, wc, el)]
    ELSE ca[el]

\* buildScope(el)
BuildScope(lc, wc, ca, el) ==
    MergeContexts(lc, wc, Memoized(lc, wc, ca, el).list, 1, EmptyScope)

ScopeInit ==
    /\ loopVar \in Names
    /\ withVar \in [WithEls -> Names]
    /\ loopContextValue = [e \in ScopeEls |-> NoCtx]
    /\ withContextValue = [e \in ScopeEls |-> NoCtx]
    /\ contextAncestors = [e \in ScopeEls |-> NoMemo]
    /\ scopeOf = [e \in ScopeEls |-> EmptyScope]
    /\ walk = 0

\* the scope ScopeInit of a specification that does not use it
ScopeIdle ==
    /\ ScopeInit
    /\ loopVar = "x"
    /\ withVar = [e \in WithEls |-> "x"]

\* processElement(el) for the next element of the traversal: buildScope,
\* then the render method of a structural element
ProcessElement(el, v) ==
    /\ walk < Len(Preorder)
    /\ el = Preorder[walk + 1]
    /\ walk' = walk + 1
    /\ contextAncestors' =
          [contextAncestors EXCEPT ![el] =
              Memoized(loopContextValue, withContextValue, contextAncestors, el)]
    /\ scopeOf' =
          [scopeOf EXCEPT ![el] =
              BuildScope(loopContextValue, withContextValue, contextAncestors, el)]
    /\ IF el = "for"
       THEN \* PhoebeFor.render: registry(item).loopContextValue = ctx
            /\ v \in LoopItems
            /\ loopContextValue' = [loopContextValue EXCEPT !["item"] = Ctx(loopVar, v)]
            /\ UNCHANGED withContextValue
       ELSE IF el \in WithEls
       THEN \* PhoebeWith.render: registry(this).withContextValue = {[varName]: value}
            /\ v \in WithValues
            /\ withContextValue' = [withContextValue EXCEPT ![el] = Ctx(withVar[el], v)]
            /\ UNCHANGED loopContextValue
       ELSE /\ v = Absent
            /\ UNCHANGED <<loopContextValue, withContextValue>>
    /\ UNCHANGED <<loopVar, withVar, notScope>>

\* renderTree has visited every element; the next render pass can start
PassEnd ==
    /\ walk = Len(Preorder)
    /\ walk' = 0
    /\ UNCHANGED <<loopVar, withVar, loopContextValue, withContextValue,
                   contextAncestors, scopeOf, notScope>>

ScopeNext ==
    \/ \E el \in ScopeEls, v \in LoopItems \cup WithValues \cup {Absent} :
           ProcessElement(el, v)
    \/ PassEnd

-----------------------------------------------------------------------------
(***************************************************************************)
(* <phoebe-for>.  An item is [id, v]; the key expression of a keyed loop   *)
(* yields the item's id.  Item elements are numbered; a clone gets a       *)
(* number no live element has.                                             *)
(***************************************************************************)
MaxLen == 3

ForKeys == {1, 2, 3}
Payloads == {7, 8}
AllKeys == 0..(3 + MaxLen)
ElIds == 1..(4 + MaxLen)

Range(f) == {f[i] : i \in DOMAIN f}
SeqsUpTo(S, n) == UNION {[1..m -> S] : m \in 0..n}

\* what the in expression can evaluate to: an array, a number, or null
ForInputs ==
    {[t |-> "array", n |-> 0,
      items |-> [i \in 1..Len(ks) |-> [id |-> ks[i], v |-> pv]]] :
        ks \in SeqsUpTo(ForKeys, MaxLen), pv \in Payloads}
    \cup {[t |-> "number", n |-> k, items |-> <<>>] : k \in (-1)..MaxLen}
    \cup {[t |-> "null", n |-> 0, items |-> <<>>]}

\* "ensure iterObj is iterable": a non-negative number counts from 0, a
\* negative number and a non-iterable become an empty sequence
Normalize(in) ==
    IF in.t = "number"
    THEN IF in.n >= 0 THEN [i \in 1..in.n |-> [id |-> i - 1, v |-> i - 1]] ELSE <<>>
    ELSE IF in.t = "null" THEN <<>>
    ELSE in.items

NoItem == [id |-> -1, v |-> -1]
NoItemCtx == [def |-> FALSE, item |-> NoItem, index |-> -1]

\* ctx = {}; if (varName) ctx[varName] = item; if (indexName) ctx[indexName] = index
MakeCtx(item, index) ==
    [def |-> TRUE,
     item |-> IF forHasVar THEN item ELSE NoItem,
     index |-> IF forHasIndex THEN index ELSE -1]

IndexOf(ch, el) == IF \E i \in 1..Len(ch) : ch[i] = el
                   THEN CHOOSE i \in 1..Len(ch) : ch[i] = el
                   ELSE 0

\* el.nextElementSibling (0 is null)
NextElementSibling(ch, el) ==
    LET i == IndexOf(ch, el) IN IF i = 0 \/ i = Len(ch) THEN 0 ELSE ch[i + 1]

\* el.remove()
Remove(ch, el) == SelectSeq(ch, LAMBDA e : e # el)

\* parent.insertBefore(node, ref): node is first taken out of the tree; a
\* ref that is node itself stands for node's next sibling
InsertBefore(ch, node, ref) ==
    LET ref1 == IF ref = node THEN NextElementSibling(ch, node) ELSE ref
        rest == Remove(ch, node)
        i == IndexOf(rest, ref1)
    IN  IF ref1 = 0 THEN Append(rest, node)
        ELSE SubSeq(rest, 1, i - 1) \o <<node>> \o SubSeq(rest, i, Len(rest))

\* template.content.cloneNode(true).firstElementChild: a new element, one
\* that is not in the document (numbered after its key when that is free)
FreshEl(ch, hint) ==
    IF hint \in ElIds /\ hint \notin Range(ch) THEN hint
    ELSE CHOOSE e \in ElIds : e \notin Range(ch) /\ \A f \in 1..(e - 1) : f \in Range(ch)

\* keyed loop, one item: move and update the key's element, or clone
KeyedItem(st, item, index) ==
    LET key == item.id
        ref == IF st.cur # 0 THEN NextElementSibling(st.ch, st.cur) ELSE 0
    IN  IF st.ke[key] # 0
        THEN LET keyEl == st.ke[key]
                 ch1 == IF st.cur = 0 \/ keyEl # st.cur
                        THEN InsertBefore(st.ch, keyEl, ref) ELSE st.ch
             IN  [ch |-> ch1, ke |-> st.ke,
                  ctx |-> [st.ctx EXCEPT ![keyEl] = MakeCtx(item, index)],
                  cur |-> NextElementSibling(ch1, keyEl),
                  visited |-> st.visited \cup {key}]
        ELSE LET newEl == FreshEl(st.ch, key + 1)
                 ch1 == InsertBefore(st.ch, newEl, ref)
             IN  [ch |-> ch1, ke |-> [st.ke EXCEPT ![key] = newEl],
                  ctx |-> [st.ctx EXCEPT ![newEl] = MakeCtx(item, index)],
                  cur |-> NextElementSibling(ch1, newEl),
                  visited |-> st.visited \cup {key}]

\* keyed loop: for (const item of iterObj), from the i-th item
RECURSIVE KeyedItems(_, _, _)
KeyedItems(st, items, i) ==
    IF i > Len(items) THEN st
    ELSE KeyedItems(KeyedItem(st, items[i], i - 1), items, i + 1)

\* a prune that leaves the unvisited keys' elements and index entries alone
KeyedPruneNothing(st) == st

\* a prune that removes the unvisited keys' elements and keeps their entries
KeyedPruneKeepsIndex(st) ==
    LET stale == {k \in AllKeys : st.ke[k] # 0 /\ k \notin st.visited}
        gone == {st.ke[k] : k \in stale}
    IN  [st EXCEPT !.ch = SelectSeq(st.ch, LAMBDA e : e \notin gone)]

\* keyed loop: prune old items
KeyedPrune(st) ==
    LET stale == {k \in AllKeys : st.ke[k] # 0 /\ k \notin st.visited}
        gone == {st.ke[k] : k \in stale}
    IN  [st EXCEPT !.ch = SelectSeq(st.ch, LAMBDA e : e \notin gone),
                   !.ke = [k \in AllKeys |-> IF k \in stale THEN 0 ELSE st.ke[k]]]

\* unkeyed loop, one item: update the current element, or clone and append
UnkeyedItem(st, item, index) ==
    IF st.cur = 0
    THEN LET newEl == FreshEl(st.ch, 0)
         IN  [st EXCEPT !.ch = InsertBefore(st.ch, newEl, 0),
                        !.ctx[newEl] = MakeCtx(item, index)]
    ELSE [st EXCEPT !.ctx[st.cur] = MakeCtx(item, index),
                    !.cur = NextElementSibling(st.ch, st.cur)]

RECURSIVE UnkeyedItems(_, _, _)
UnkeyedItems(st, items, i) ==
    IF i > Len(items) THEN st
    ELSE UnkeyedItems(UnkeyedItem(st, items[i], i - 1), items, i + 1)

\* a prune that removes currentEl and stops
UnkeyedPruneOne(st) ==
    IF st.cur = 0 THEN st ELSE [st EXCEPT !.ch = Remove(st.ch, st.cur), !.cur = 0]

\* unkeyed loop: prune old items, currentEl and every later sibling
RECURSIVE UnkeyedPrune(_)
UnkeyedPrune(st) ==
    IF st.cur = 0 THEN st
    ELSE UnkeyedPrune([st EXCEPT !.ch = Remove(st.ch, st.cur),
                                !.cur = NextElementSibling(st.ch, st.cur)])

\* the registry is weak: a removed element's entry is gone
LiveCtx(ctx, ch) == [e \in ElIds |-> IF e \in Range(ch) THEN ctx[e] ELSE NoItemCtx]

NoKeys == [k \in AllKeys |-> 0]
FirstItem(ch) == IF ch = <<>> THEN 0 ELSE ch[1]

\* what a render did to the item elements: removed some, changed the order
\* of two it kept
RenderStats(before, after) ==
    [removed |-> Range(before) \ Range(after) # {},
     moved |-> \E a, b \in Range(before) \cap Range(after) :
                   /\ IndexOf(before, a) < IndexOf(before, b)
                   /\ IndexOf(after, a) > IndexOf(after, b)]

\* the key expression reads the loop variable, so a keyed loop has one
ForInit ==
    /\ forKeyed \in BOOLEAN
    /\ forHasVar \in BOOLEAN
    /\ forHasIndex \in BOOLEAN
    /\ forKeyed => forHasVar
    /\ isInitDone = FALSE
    /\ forChildren = <<>>
    /\ keyElements = [def |-> FALSE, map |-> NoKeys]
    /\ itemCtx = [e \in ElIds |-> NoItemCtx]
    /\ lastIter = <<>>
    /\ lastRender = RenderStats(<<>>, <<>>)
    /\ forConnected = TRUE
    /\ cleanupTimeoutHandle = FALSE
    /\ reattached = FALSE

\* the loop element of a specification that does not use it
ForIdle == ForInit /\ forKeyed /\ forHasVar /\ forHasIndex

\* PhoebeFor.render of a loop with a key attribute
RenderKeyed(in) ==
    /\ forKeyed
    /\ forConnected
    /\ LET items == Normalize(in)
           st0 == [ch |-> forChildren, ke |-> keyElements.map, ctx |-> itemCtx,
                   cur |-> FirstItem(forChildren), visited |-> {}]
       IN  \E st \in {KeyedPrune(KeyedItems(st0, items, 1))} :
           /\ forChildren' = st.ch
           /\ keyElements' = [def |-> TRUE, map |-> st.ke]
           /\ itemCtx' = LiveCtx(st.ctx, st.ch)
           /\ lastIter' = items
           /\ lastRender' = RenderStats(forChildren, st.ch)
    /\ isInitDone' = TRUE
    /\ reattached' = FALSE
    /\ UNCHANGED <<forKeyed, forHasVar, forHasIndex, forConnected,
                   cleanupTimeoutHandle, notFor>>

\* PhoebeFor.render of a loop without a key attribute
RenderUnkeyed(in) ==
    /\ ~ forKeyed
    /\ forConnected
    /\ LET items == Normalize(in)
           st0 == [ch |-> forChildren, ctx |-> itemCtx, cur |-> FirstItem(forChildren)]
       IN  \E st \in {UnkeyedPrune(UnkeyedItems(st0, items, 1))} :
           /\ forChildren' = st.ch
           /\ itemCtx' = LiveCtx(st.ctx, st.ch)
           /\ lastIter' = items
           /\ lastRender' = RenderStats(forChildren, st.ch)
    /\ isInitDone' = TRUE
    /\ reattached' = FALSE
    /\ UNCHANGED <<forKeyed, forHasVar, forHasIndex, keyElements, forConnected,
                   cleanupTimeoutHandle, notFor>>

\* the loop element leaves the document: disconnectedCallback arms the cleanup
Detach ==
    /\ forConnected
    /\ forConnected' = FALSE
    /\ cleanupTimeoutHandle' = TRUE
    /\ reattached' = FALSE
    /\ UNCHANGED <<forKeyed, forHasVar, forHasIndex, isInitDone, forChildren,
                   keyElements, itemCtx, lastIter, lastRender, notFor>>

\* a connectedCallback that leaves the timer armed
AttachKeepsTimer ==
    /\ ~ forConnected
    /\ forConnected' = TRUE
    /\ reattached' = cleanupTimeoutHandle
    /\ UNCHANGED <<forKeyed, forHasVar, forHasIndex, isInitDone, forChildren,
                   keyElements, itemCtx, lastIter, lastRender,
                   cleanupTimeoutHandle, notFor>>

\* the loop element enters the document again: connectedCallback clears the timer
Attach ==
    /\ ~ forConnected
    /\ forConnected' = TRUE
    /\ cleanupTimeoutHandle' = FALSE
    /\ reattached' = cleanupTimeoutHandle
    /\ UNCHANGED <<forKeyed, forHasVar, forHasIndex, isInitDone, forChildren,
                   keyElements, itemCtx, lastIter, lastRender, notFor>>

\* a cleanup that removes the item elements and keeps the key index
CleanupKeepsIndex ==
    /\ cleanupTimeoutHandle
    /\ cleanupTimeoutHandle' = FALSE
    /\ reattached' = FALSE
    /\ IF ~ forConnected /\ isInitDone
       THEN /\ forChildren' = <<>>
            /\ itemCtx' = [e \in ElIds |-> NoItemCtx]
       ELSE UNCHANGED <<forChildren, itemCtx>>
    /\ UNCHANGED <<forKeyed, forHasVar, forHasIndex, isInitDone, lastIter,
                   lastRender, forConnected, keyElements, notFor>>

\* the cleanup timer fires: a loop that is still detached keeps only its template
Cleanup ==
    /\ cleanupTimeoutHandle
    /\ cleanupTimeoutHandle' = FALSE
    /\ reattached' = FALSE
    /\ IF ~ forConnected /\ isInitDone
       THEN /\ forChildren' = <<>>
            /\ keyElements' = [def |-> FALSE, map |-> NoKeys]
            /\ itemCtx' = [e \in ElIds |-> NoItemCtx]
       ELSE UNCHANGED <<forChildren, keyElements, itemCtx>>
    /\ UNCHANGED <<forKeyed, forHasVar, forHasIndex, isInitDone, lastIter,
                   lastRender, forConnected, notFor>>

\* an unkeyed loop never looks into its items: the i-th item has id i
UnkeyedInputs ==
    {in \in ForInputs :
        in.t = "array" => \A i \in 1..Len(in.items) : in.items[i].id = i}

ForNext ==
    \/ \E in \in ForInputs : RenderKeyed(in)
    \/ \E in \in UnkeyedInputs : RenderUnkeyed(in)
    \/ Detach
    \/ Attach
    \/ Cleanup

-----------------------------------------------------------------------------
(***************************************************************************)
(* <phoebe-if>.  The element's child nodes are numbered; before the first  *)
(* render they are all live.                                               *)
(***************************************************************************)
MaxKids == 3
MaxEvents == 3

NoEvent == "none"

\* the children the document gives the element: none, one node, several
IfInit ==
    /\ ifInitDone = FALSE
    /\ ifContent = <<>>
    /\ \E n \in 0..MaxKids : ifLive = [i \in 1..n |-> i]
    /\ ifKids = ifLive
    /\ ifFlag \in BOOLEAN
    /\ ifRenders = 0
    /\ prevShould = FALSE
    /\ lastShould = FALSE
    /\ lastEvent = NoEvent
    /\ ifEvents = <<>>

\* the conditional element of a specification that does not use it
IfIdle == IfInit /\ ifLive = <<>> /\ ifFlag

\* a state write changes what the if expression evaluates to
IfFlip ==
    /\ ifFlag' = ~ ifFlag
    /\ UNCHANGED <<ifInitDone, ifContent, ifLive, ifRenders, prevShould,
                   lastShould, lastEvent, ifEvents, ifKids, notIf>>

\* a hide that moves only the first live sibling into the template
MoveOneToTemplate(content, live) ==
    IF live = <<>> THEN [content |-> content, live |-> live]
    ELSE [content |-> Append(content, Head(live)), live |-> Tail(live)]

\* while (template.nextSibling) template.content.appendChild(template.nextSibling)
MoveToTemplate(content, live) == [content |-> content \o live, live |-> <<>>]

\* a show that loses the last node of the template
ShowAllButLast(content) ==
    [content |-> <<>>, live |-> SubSeq(content, 1, Len(content) - 1)]

\* this.replaceChildren(template, ...template.content.childNodes)
ShowFromTemplate(content) == [content |-> <<>>, live |-> content]

\* PhoebeIf.render
IfRender ==
    /\ Len(ifEvents) < MaxEvents
    /\ LET isInitRender == ~ ifInitDone
           \* init: template.content.replaceChildren(...this.childNodes)
           content == IF isInitRender THEN ifLive ELSE ifContent
           live == IF isInitRender THEN <<>> ELSE ifLive
           shouldShow == ifFlag
           isShowing == Len(content) = 0
           event == IF isInitRender THEN NoEvent
                    ELSE IF shouldShow /\ ~ isShowing THEN "true"
                    ELSE IF ~ shouldShow /\ isShowing THEN "false"
                    ELSE NoEvent
       IN  /\ IF shouldShow /\ ~ isShowing
              THEN /\ ifContent' = ShowFromTemplate(content).content
                   /\ ifLive' = ShowFromTemplate(content).live
              ELSE IF ~ shouldShow /\ isShowing
              THEN /\ ifContent' = MoveToTemplate(content, live).content
                   /\ ifLive' = MoveToTemplate(content, live).live
              ELSE /\ ifContent' = content
                   /\ ifLive' = live
           /\ lastEvent' = event
           /\ ifEvents' = IF event = NoEvent THEN ifEvents ELSE Append(ifEvents, event)
           /\ prevShould' = lastShould
           /\ lastShould' = shouldShow
    /\ ifInitDone' = TRUE
    /\ ifRenders' = Min(ifRenders + 1, 2)
    /\ UNCHANGED <<ifFlag, ifKids, notIf>>

IfNext ==
    \/ IfFlip
    \/ IfRender

-----------------------------------------------------------------------------
(***************************************************************************)
(* The class directives of processElement.  A class attribute is the set   *)
(* of its class names.                                                     *)
(***************************************************************************)
ClassNames == {"red", "bold", "green"}
Toggled == {"red", "bold"}
ClassAttr == "phoebe:class"
ToggleAttr(c) == "phoebe-class:" \o c
ClsAttrNames == {ClassAttr} \cup {ToggleAttr(c) : c \in Toggled}

\* the orders the attributes can have in the document
AttrOrders ==
    {q \in [1..Cardinality(ClsAttrNames) -> ClsAttrNames] :
        \A i, j \in DOMAIN q : q[i] = q[j] => i = j}

\* phoebeAttrs.sort((a, b) => +(a === "phoebe:class") - +(b === "phoebe:class")):
\* a stable sort, ascending in the number the comparator subtracts
SortKey(a) == IF a = ClassAttr THEN 1 ELSE 0
SortAttrs(q) ==
    SelectSeq(q, LAMBDA a : SortKey(a) = 0) \o SelectSeq(q, LAMBDA a : SortKey(a) = 1)

\* directives.handleClass: el.classList.toggle(className, !!value)
HandleClass(st, c, on) ==
    [st EXCEPT !.cls = IF on THEN st.cls \cup {c} ELSE st.cls \ {c}]

\* directives.handleAttribute for class: snapshot the class attribute once,
\* then set it to the snapshot plus the value
HandleClassAttr(st, value) ==
    LET orig == IF st.orig.def THEN st.orig.v ELSE st.cls
    IN  [cls |-> orig \cup value, orig |-> [def |-> TRUE, v |-> orig]]

\* phoebeAttrs.forEach, from the i-th attribute
RECURSIVE ApplyAttrs(_, _, _, _, _)
ApplyAttrs(st, q, i, tog, value) ==
    IF i > Len(q) THEN st
    ELSE ApplyAttrs(IF q[i] = ClassAttr THEN HandleClassAttr(st, value)
                    ELSE LET c == CHOOSE d \in Toggled : ToggleAttr(d) = q[i]
                         IN  HandleClass(st, c, tog[c]),
                    q, i + 1, tog, value)

ClsInit ==
    /\ clsAttrs \in AttrOrders
    /\ elClass \in SUBSET ClassNames
    /\ originalClass = [def |-> FALSE, v |-> {}]
    /\ lastToggle = [c \in Toggled |-> FALSE]
    /\ clsRendered = FALSE
    /\ authorClass = elClass
    /\ lastValue = {}

\* the element of a specification that does not use it
ClsIdle == ClsInit /\ clsAttrs = (CHOOSE q \in AttrOrders : TRUE) /\ elClass = {}

\* processElement(el): the toggle expressions evaluate to tog, the
\* phoebe:class expression to the class names in value
ProcessClasses(tog, value) ==
    /\ \E st \in {ApplyAttrs([cls |-> elClass, orig |-> originalClass],
                              SortAttrs(clsAttrs), 1, tog, value)} :
           /\ elClass' = st.cls
           /\ originalClass' = st.orig
    /\ lastToggle' = tog
    /\ clsRendered' = TRUE
    /\ lastValue' = value
    /\ UNCHANGED <<clsAttrs, authorClass, notCls>>

ClsNext ==
    \E tog \in [Toggled -> BOOLEAN], value \in SUBSET {"green", "red"} :
        ProcessClasses(tog, value)

-----------------------------------------------------------------------------
(***************************************************************************)
(* renderTree: traverseDom calls processElement for every element; an      *)
(* element evaluates its expressions in order through js.get (its render   *)
(* method, phoebe:attr, phoebe-class, phoebe-bind), js.set (phoebe-ref) or *)
(* js.exec (an ontrue / onfalse handler its render dispatches to).         *)
(***************************************************************************)
TravEls == {"e1", "e2", "e3", "e4"}
travRoot == "e1"
travChildren == [e \in TravEls |->
                    IF e = "e1" THEN <<"e2", "e4">>
                    ELSE IF e = "e2" THEN <<"e3">> ELSE <<>>]
DocOrder == <<"e1", "e2", "e3", "e4">>
DocPos(e) == CHOOSE i \in 1..Len(DocOrder) : DocOrder[i] = e
NoEl == "none"

DirOptions == {<<"get">>, <<"set", "get">>, <<"exec", "get">>, <<"set">>}

Reverse(q) == [i \in 1..Len(q) |-> q[Len(q) + 1 - i]]

\* no catch clause rethrows
PropagatesNever(kind) == FALSE

\* the catch clause of js.get rethrows; those of js.set and js.exec do not
Propagates(kind) == kind = "get"

TravInit ==
    /\ travDirs \in [TravEls -> DirOptions]
    /\ travPc = "idle"
    /\ travStack = <<>>
    /\ travCur = NoEl
    /\ travRan = [e \in TravEls |-> 0]
    /\ travVisited = {}
    /\ travSwallowed = 0
    /\ travGetThrew = FALSE

\* the traversal of a specification that does not use it
TravIdle == TravInit /\ travDirs = [e \in TravEls |-> <<"get">>]

\* renderTree(rootNode): const stack = [root]
TravStart ==
    /\ travPc # "run"
    /\ travPc' = "run"
    /\ travStack' = <<travRoot>>
    /\ travCur' = NoEl
    /\ travRan' = [e \in TravEls |-> 0]
    /\ travVisited' = {}
    /\ travSwallowed' = 0
    /\ travGetThrew' = FALSE
    /\ UNCHANGED <<travDirs, notTrav>>

\* const el = stack.pop(); callback(el)
TravPop ==
    /\ travPc = "run" /\ travCur = NoEl /\ travStack # <<>>
    /\ travCur' = travStack[Len(travStack)]
    /\ travStack' = SubSeq(travStack, 1, Len(travStack) - 1)
    /\ travVisited' = travVisited \cup {travStack[Len(travStack)]}
    /\ UNCHANGED <<travDirs, travPc, travRan, travSwallowed, travGetThrew, notTrav>>

\* the element's next expression evaluates without an exception
TravEval ==
    /\ travPc = "run" /\ travCur # NoEl
    /\ travRan[travCur] < Len(travDirs[travCur])
    /\ travRan' = [travRan EXCEPT ![travCur] = @ + 1]
    /\ UNCHANGED <<travDirs, travPc, travStack, travCur, travVisited,
                   travSwallowed, travGetThrew, notTrav>>

\* the element's next expression throws: js.get logs and rethrows, and the
\* exception leaves processElement, traverseDom and renderTree; js.set and
\* js.exec log and return
TravThrow ==
    /\ travPc = "run" /\ travCur # NoEl
    /\ travRan[travCur] < Len(travDirs[travCur])
    /\ LET kind == travDirs[travCur][travRan[travCur] + 1]
       IN  /\ travRan' = [travRan EXCEPT ![travCur] = @ + 1]
           /\ travGetThrew' = (travGetThrew \/ kind = "get")
           /\ IF Propagates(kind)
              THEN travPc' = "aborted" /\ UNCHANGED travSwallowed
              ELSE travSwallowed' = travSwallowed + 1 /\ UNCHANGED travPc
    /\ UNCHANGED <<travDirs, travStack, travCur, travVisited, notTrav>>

\* the callback returns: push the children in reverse order
TravPush ==
    /\ travPc = "run" /\ travCur # NoEl
    /\ travRan[travCur] = Len(travDirs[travCur])
    /\ travStack' = travStack \o Reverse(travChildren[travCur])
    /\ travCur' = NoEl
    /\ UNCHANGED <<travDirs, travPc, travRan, travVisited, travSwallowed,
                   travGetThrew, notTrav>>

\* while (stack.length > 0) ends
TravEnd ==
    /\ travPc = "run" /\ travCur = NoEl /\ travStack = <<>>
    /\ travPc' = "complete"
    /\ UNCHANGED <<travDirs, travStack, travCur, travRan, travVisited,
                   travSwallowed, travGetThrew, notTrav>>

TravNext ==
    \/ TravStart
    \/ TravPop
    \/ TravEval
    \/ TravThrow
    \/ TravPush
    \/ TravEnd

-----------------------------------------------------------------------------
(***************************************************************************)
(* <phoebe-timer>.  An attribute value is a sequence of characters.        *)
(***************************************************************************)
MaxIntervals == 3

Digits == <<"0", "1", "2", "3", "4", "5", "6", "7", "8", "9">>
IsDigit(c) == \E i \in 1..10 : Digits[i] = c
DigitVal(c) == (CHOOSE i \in 1..10 : Digits[i] = c) - 1

DoAttrs == {"", "tick()"}
EveryAttrs == { <<>>, <<"5">>, <<"m", "s">>, <<"2", "s">>, <<"5", "0", "m", "s">>,
                <<" ", "2", "s">>, <<"2", " ", "h", "r", "s">> }
TimerScopes == {"scope1", "scope2"}

RECURSIVE TrimStart(_)
TrimStart(q) == IF q # <<>> /\ q[1] = " " THEN TrimStart(Tail(q)) ELSE q

RECURSIVE TrimEnd(_)
TrimEnd(q) == IF q # <<>> /\ q[Len(q)] = " "
              THEN TrimEnd(SubSeq(q, 1, Len(q) - 1)) ELSE q

\* String.prototype.trim
Trim(q) == TrimEnd(TrimStart(q))

\* the number of leading digits of q
RECURSIVE DigitPrefix(_)
DigitPrefix(q) == IF q # <<>> /\ IsDigit(q[1]) THEN 1 + DigitPrefix(Tail(q)) ELSE 0

RECURSIVE DigitsValue(_, _)
DigitsValue(q, n) == IF n = 0 THEN 0
                     ELSE 10 * DigitsValue(q, n - 1) + DigitVal(q[n])

\* parseFloat on unsigned integer literals: the longest numeric prefix, the
\* rest of the string is ignored; NaN when the string starts with no digit
ParseFloat(q) ==
    LET t == TrimStart(q)
        n == DigitPrefix(t)
    IN  IF n = 0 THEN [nan |-> TRUE, val |-> 0]
        ELSE [nan |-> FALSE, val |-> DigitsValue(t, n)]

\* String.prototype.endsWith
EndsWith(q, suffix) ==
    /\ Len(q) >= Len(suffix)
    /\ SubSeq(q, Len(q) - Len(suffix) + 1, Len(q)) = suffix

\* the condition of connectedCallback
TimerValid(do, every) ==
    LET intervalStr == Trim(every)
    IN  /\ do # ""
        /\ ~ ParseFloat(intervalStr).nan
        /\ (EndsWith(intervalStr, <<"m", "s">>) \/ EndsWith(intervalStr, <<"s">>))

\* isSeconds ? interval * 1000 : interval
TimerMillis(every) ==
    LET intervalStr == Trim(every)
    IN  IF ~ EndsWith(intervalStr, <<"m", "s">>)
        THEN ParseFloat(intervalStr).val * 1000
        ELSE ParseFloat(intervalStr).val

NoAttrs == [do |-> "", every |-> <<>>]
NoExec == [expr |-> "", scope |-> "none"]

\* the element is constructed and not yet in the document
TimerInit ==
    /\ timerConnected = FALSE
    /\ timerAttrs = NoAttrs
    /\ timerHandle = 0
    /\ timerShouldRun = FALSE
    /\ timerExpr = ""
    /\ timerInterval = 0
    /\ timerScope = "none"
    /\ windowIntervals = {}
    /\ nextHandle = 1
    /\ timerRendered = FALSE
    /\ timerExecuted = NoExec

\* connectedCallback
TimerAttach(do, every) ==
    /\ ~ timerConnected
    /\ nextHandle <= MaxIntervals
    /\ timerConnected' = TRUE
    /\ timerAttrs' = [do |-> do, every |-> every]
    /\ timerRendered' = FALSE
    /\ IF TimerValid(do, every)
       THEN /\ timerExpr' = do
            /\ timerInterval' = TimerMillis(every)
            /\ timerShouldRun' = TRUE
       ELSE UNCHANGED <<timerExpr, timerInterval, timerShouldRun>>
    /\ UNCHANGED <<timerHandle, timerScope, windowIntervals, nextHandle,
                   timerExecuted, notTimer>>

\* disconnectedCallback
TimerDetach ==
    /\ timerConnected
    /\ timerConnected' = FALSE
    /\ timerShouldRun' = FALSE
    /\ windowIntervals' = windowIntervals \ {timerHandle}
    /\ timerHandle' = 0
    /\ UNCHANGED <<timerAttrs, timerExpr, timerInterval, timerScope, nextHandle,
                   timerRendered, timerExecuted, notTimer>>

\* render(scope), called by processElement for an element of the document
TimerRender(scope) ==
    /\ timerConnected
    /\ timerScope' = scope
    /\ timerRendered' = TRUE
    /\ IF timerShouldRun /\ timerHandle = 0
       THEN /\ timerShouldRun' = FALSE
            /\ timerHandle' = nextHandle
            /\ windowIntervals' = windowIntervals \cup {nextHandle}
            /\ nextHandle' = nextHandle + 1
       ELSE UNCHANGED <<timerShouldRun, timerHandle, windowIntervals, nextHandle>>
    /\ UNCHANGED <<timerConnected, timerAttrs, timerExpr, timerInterval,
                   timerExecuted, notTimer>>

\* the interval callback: js.exec(this.#expr, this.#scope, this)
TimerTick ==
    /\ windowIntervals # {}
    /\ timerExecuted' = [expr |-> timerExpr, scope |-> timerScope]
    /\ UNCHANGED <<timerConnected, timerAttrs, timerHandle, timerShouldRun,
                   timerExpr, timerInterval, timerScope, windowIntervals,
                   nextHandle, timerRendered, notTimer>>

TimerNext ==
    \/ \E do \in DoAttrs, every \in EveryAttrs : TimerAttach(do, every)
    \/ TimerDetach
    \/ \E scope \in TimerScopes : TimerRender(scope)
    \/ TimerTick

-----------------------------------------------------------------------------
(***************************************************************************)
(* phoebe-bind and phoebe:on<event> on one input element.  A string is a   *)
(* sequence of characters; a JavaScript value is a record with a type tag. *)
(***************************************************************************)
MaxArr == 2
MaxListeners == 3

BindTypes == {"text", "checkbox", "radio", "number"}
EventNames == {"click", "input"}
Texts == {<<>>, <<"a">>, <<"b">>}
ValueAttr == <<"a">>

Str(q) == [t |-> "str", n |-> 0, s |-> q, b |-> FALSE, items |-> <<>>]
Num(n) == [t |-> "num", n |-> n, s |-> <<>>, b |-> FALSE, items |-> <<>>]
Bool(b) == [t |-> "bool", n |-> 0, s |-> <<>>, b |-> b, items |-> <<>>]
Arr(q) == [t |-> "arr", n |-> 0, s |-> <<>>, b |-> FALSE, items |-> q]
NaNValue == [t |-> "nan", n |-> 0, s |-> <<>>, b |-> FALSE, items |-> <<>>]
NullValue == [t |-> "null", n |-> 0, s |-> <<>>, b |-> FALSE, items |-> <<>>]

StringLists(n) == UNION {[1..k -> {<<"a">>, <<"b">>}] : k \in 0..n}

\* the values the program stores in the bound property, per control
BindValues(type) ==
    IF type = "text" THEN {Str(q) : q \in Texts} \cup {Num(7), NullValue}
    ELSE IF type = "checkbox"
         THEN {Arr(q) : q \in StringLists(MaxArr)} \cup {Bool(TRUE), Bool(FALSE)}
    ELSE IF type = "radio" THEN {Str(<<"a">>), Str(<<"b">>), NullValue}
    ELSE {Num(0), Num(7), Num(12), NaNValue, NullValue}

\* what the user can turn el.value into, per control
UserTexts(type) ==
    IF type = "text" THEN Texts
    ELSE IF type = "number" THEN {<<>>, <<"7">>, <<"1", "2">>}
    ELSE {ValueAttr}

\* Number.prototype.toString on a natural number
RECURSIVE NumToStr(_)
NumToStr(n) == IF n < 10 THEN <<Digits[n + 1]>>
               ELSE NumToStr(n \div 10) \o <<Digits[(n % 10) + 1]>>

\* the string the value setter of an input element stores: ToString, null
\* is the empty string
JsString(v) ==
    IF v.t = "str" THEN v.s
    ELSE IF v.t = "num" THEN NumToStr(v.n)
    ELSE IF v.t = "nan" THEN <<"N", "a", "N">>
    ELSE IF v.t = "bool" THEN (IF v.b THEN <<"t", "r", "u", "e">>
                               ELSE <<"f", "a", "l", "s", "e">>)
    ELSE <<>>

\* the value sanitization of type=number: a string that is no number is
\* replaced by the empty string
SanitizeNumber(q) == IF q # <<>> /\ DigitPrefix(q) = Len(q) THEN q ELSE <<>>

\* the input listener of a number control writes its text
ValueAsText(q) == Str(q)

\* HTMLInputElement.valueAsNumber
ValueAsNumber(q) == IF q = <<>> THEN NaNValue ELSE Num(DigitsValue(q, Len(q)))

\* !!value
Truthy(v) ==
    \/ v.t = "bool" /\ v.b
    \/ v.t = "str" /\ v.s # <<>>
    \/ v.t = "num" /\ v.n # 0
    \/ v.t = "arr"

\* Array.prototype.includes
Includes(q, x) == \E i \in 1..Len(q) : q[i] = x

\* Array.prototype.indexOf, from 1
FirstIndexOf(q, x) == CHOOSE i \in 1..Len(q) : q[i] = x /\ \A j \in 1..(i - 1) : q[j] # x

\* binding.splice(i, 1)
Splice(q, i) == SubSeq(q, 1, i - 1) \o SubSeq(q, i + 1, Len(q))

\* handleBinding, lines 169-179: the control after it shows the value
ShowValue(type, value, val, checked) ==
    IF type = "checkbox"
    THEN [value |-> val,
          checked |-> IF value.t = "arr" THEN Includes(value.items, val)
                      ELSE Truthy(value)]
    ELSE IF type = "radio"
    THEN [value |-> val, checked |-> (value.t = "str" /\ value.s = val)]
    ELSE IF type = "number"
    THEN IF value.t # "nan"
         THEN [value |-> SanitizeNumber(JsString(value)), checked |-> checked]
         ELSE [value |-> val, checked |-> checked]
    ELSE [value |-> JsString(IF value.t = "null" THEN Str(<<>>) ELSE value),
          checked |-> checked]

\* the input listener, lines 184-201: the bound property after it ran
WriteBack(type, binding, val, checked) ==
    IF type = "checkbox"
    THEN IF binding.t = "arr"
         THEN IF checked /\ ~ Includes(binding.items, val)
              THEN Arr(Append(binding.items, val))
              ELSE IF ~ checked /\ Includes(binding.items, val)
              THEN Arr(Splice(binding.items, FirstIndexOf(binding.items, val)))
              ELSE binding
         ELSE Bool(checked)
    ELSE IF type = "radio"
    THEN IF checked THEN Str(val) ELSE binding
    ELSE IF type = "number"
    THEN ValueAsNumber(val)
    ELSE Str(val)

\* the listeners of one kind run one after the other
RECURSIVE RunListeners(_, _, _, _, _)
RunListeners(k, type, binding, val, checked) ==
    IF k = 0 THEN binding
    ELSE RunListeners(k - 1, type, WriteBack(type, binding, val, checked), val, checked)

\* no listener is remembered
HasListenerNever(bound, name) == FALSE

\* registry(el).boundEvents.has(eventName)
HasListener(bound, name) == name \in bound

\* addEventListener; the model counts up to MaxListeners
AddListener(k) == IF k < MaxListeners THEN k + 1 ELSE k

NoOp == [kind |-> "init", writes |-> 0, execs |-> 0]

BindInit ==
    /\ bindType \in BindTypes
    /\ bindEvents \in SUBSET EventNames
    /\ bindState \in BindValues(bindType)
    /\ elValue = (IF bindType \in {"checkbox", "radio"} THEN ValueAttr ELSE <<>>)
    /\ elChecked = FALSE
    /\ boundModel = FALSE
    /\ boundEvents = {}
    /\ bindListeners = 0
    /\ evListeners = [name \in EventNames |-> 0]
    /\ bindOp = NoOp
    /\ bindPrev = bindState
    /\ rerendered = FALSE

\* the element of a specification that does not use it
BindIdle ==
    /\ bindType = "text"
    /\ bindEvents = {}
    /\ bindState = NullValue
    /\ elValue = <<>>
    /\ elChecked = FALSE
    /\ boundModel = FALSE
    /\ boundEvents = {}
    /\ bindListeners = 0
    /\ evListeners = [name \in EventNames |-> 0]
    /\ bindOp = NoOp
    /\ bindPrev = NullValue
    /\ rerendered = FALSE

\* the program assigns the bound property
BindAssign(v) ==
    /\ bindPrev' = bindState
    /\ bindState' = v
    /\ bindOp' = [kind |-> "assign", writes |-> 0, execs |-> 0]
    /\ UNCHANGED <<bindType, bindEvents, elValue, elChecked, boundModel, boundEvents,
                   bindListeners, evListeners, rerendered, notBind>>

\* processElement: handleBinding for phoebe-bind, handleEvent for every
\* phoebe:on<event> attribute
BindRender ==
    /\ \E el \in {ShowValue(bindType, bindState, elValue, elChecked)} :
          elValue' = el.value /\ elChecked' = el.checked
    /\ boundModel' = TRUE
    /\ bindListeners' = (IF ~ boundModel THEN AddListener(bindListeners)
                         ELSE bindListeners)
    /\ evListeners' = [name \in EventNames |->
                          IF name \in bindEvents /\ ~ HasListener(boundEvents, name)
                          THEN AddListener(evListeners[name])
                          ELSE evListeners[name]]
    /\ boundEvents' = boundEvents \cup bindEvents
    /\ rerendered' = boundModel
    /\ bindPrev' = bindState
    /\ bindOp' = [kind |-> "render", writes |-> 0, execs |-> 0]
    /\ UNCHANGED <<bindType, bindEvents, bindState, notBind>>

\* the user edits the control and the browser dispatches input: every
\* input listener of the element runs
BindInput(val, checked) ==
    /\ bindListeners > 0 \/ evListeners["input"] > 0
    /\ elValue' = val
    /\ elChecked' = checked
    /\ bindPrev' = bindState
    /\ bindState' = RunListeners(bindListeners, bindType, bindState, val, checked)
    /\ bindOp' = [kind |-> "input", writes |-> bindListeners,
                  execs |-> evListeners["input"]]
    /\ UNCHANGED <<bindType, bindEvents, boundModel, boundEvents, bindListeners,
                   evListeners, rerendered, notBind>>

\* the browser dispatches click
BindClick ==
    /\ evListeners["click"] > 0
    /\ bindPrev' = bindState
    /\ bindOp' = [kind |-> "click", writes |-> 0, execs |-> evListeners["click"]]
    /\ UNCHANGED <<bindType, bindEvents, bindState, elValue, elChecked, boundModel,
                   boundEvents, bindListeners, evListeners, rerendered, notBind>>

BindNext ==
    \/ \E v \in BindValues(bindType) : BindAssign(v)
    \/ BindRender
    \/ \E val \in UserTexts(bindType), checked \in BOOLEAN : BindInput(val, checked)
    \/ BindClick

-----------------------------------------------------------------------------
(***************************************************************************)
(* The template of a <phoebe-for>.  A child node is an element, a text     *)
(* node with text, a text node of white space only, or a comment.          *)
(***************************************************************************)
MaxNodes == 3

NodeKinds == {"element", "text", "blank", "comment"}
ChildShapes == UNION {[1..n -> NodeKinds] : n \in 0..MaxNodes}
NoContent == [wrapped |-> FALSE, nodes |-> <<>>]

\* the nodes the getter counts: elements and text nodes that are not blank
Counted(kids) == SelectSeq(kids, LAMBDA k : k \in {"element", "text"})

\* get hasExactlyOneChild
HasExactlyOneChild(kids) == Len(Counted(kids)) = 1

\* the init part of render: wrap the children in a <div> unless there is
\* exactly one, then move them into the template
InitTemplate(kids) ==
    [wrapped |-> ~ HasExactlyOneChild(kids), nodes |-> kids]

\* template.content.cloneNode(true).firstElementChild
FirstElementChild(content) ==
    IF content.wrapped THEN "element"
    ELSE IF \E i \in 1..Len(content.nodes) : content.nodes[i] = "element"
    THEN "element"
    ELSE "null"

TplInit ==
    /\ tplKids \in ChildShapes
    /\ tplInit = FALSE
    /\ tplContent = NoContent
    /\ tplClone = "none"
    /\ tplOutcome = "none"

\* the template of a specification that does not use it
TplIdle == TplInit /\ tplKids = <<>>

\* PhoebeFor.render: the init on the first render, then, when the iterable
\* has an item (more) that has no element yet, a clone of the template;
\* insertBefore throws a TypeError when the node is null
TplRender(more) ==
    /\ \E content \in {IF tplInit THEN tplContent ELSE InitTemplate(tplKids)} :
          /\ tplContent' = content
          /\ IF more
             THEN /\ tplClone' = FirstElementChild(content)
                  /\ tplOutcome' = (IF FirstElementChild(content) = "null"
                                    THEN "threw" ELSE "done")
             ELSE /\ tplClone' = tplClone
                  /\ tplOutcome' = "done"
    /\ tplInit' = TRUE
    /\ UNCHANGED <<tplKids, notTpl>>

TplNext == \E more \in BOOLEAN : TplRender(more)

-----------------------------------------------------------------------------
(***************************************************************************)
(* renderTree over a document that its structural elements change:         *)
(*   <div> top                                                             *)
(*     <phoebe-if> if        child: x                                      *)
(*     <phoebe-for> for      child: proto, the item template               *)
(*     <span> end                                                          *)
(* The renders create the templates tplIf and tplFor and the loop items    *)
(* i1 and i2.                                                              *)
(***************************************************************************)
WalkEls == {"top", "if", "x", "for", "proto", "i1", "i2", "end", "tplIf", "tplFor"}
LoopClones == <<"i1", "i2">>

\* the elements below el, el included
RECURSIVE Below(_, _)
Below(kids, el) ==
    {el} \cup UNION {Below(kids, kids[el][i]) : i \in 1..Len(kids[el])}

\* el.isConnected: el is in the tree under the document's top element
IsConnected(kids, el) == el \in Below(kids, "top")

\* the elements that exist: in the document or in a template's content
Existing(kids, content) ==
    Below(kids, "top")
    \cup UNION {UNION {Below(kids, content[t][i]) : i \in 1..Len(content[t])} :
                   t \in {"tplIf", "tplFor"}}

\* the stack after the children were pushed first to last
PushForward(stack, kids) == stack \o kids

\* the stack after the children were pushed last to first
PushChildren(stack, kids) == stack \o Reverse(kids)

\* PhoebeIf.render: init, then show or hide the children
WalkIf(kids, content, show) ==
    LET init == kids["if"] = <<>> \/ kids["if"][1] # "tplIf"
        k0 == IF init THEN <<"tplIf">> ELSE kids["if"]
        c0 == IF init THEN kids["if"] ELSE content["tplIf"]
        isShowing == c0 = <<>>
    IN  IF show /\ ~ isShowing
        THEN [kids |-> [kids EXCEPT !["if"] = <<"tplIf">> \o c0],
              content |-> [content EXCEPT !["tplIf"] = <<>>]]
        ELSE IF ~ show /\ isShowing
        THEN [kids |-> [kids EXCEPT !["if"] = <<"tplIf">>],
              content |-> [content EXCEPT !["tplIf"] = Tail(k0)]]
        ELSE [kids |-> [kids EXCEPT !["if"] = k0],
              content |-> [content EXCEPT !["tplIf"] = c0]]

\* PhoebeFor.render without a key: init, then one item element per item
WalkFor(kids, content, n) ==
    LET init == kids["for"] = <<>> \/ kids["for"][1] # "tplFor"
        c0 == IF init THEN kids["for"] ELSE content["tplFor"]
    IN  [kids |-> [kids EXCEPT !["for"] = <<"tplFor">> \o SubSeq(LoopClones, 1, n)],
         content |-> [content EXCEPT !["tplFor"] = c0]]

WalkInit ==
    /\ wKids = [e \in WalkEls |->
                   IF e = "top" THEN <<"if", "for", "end">>
                   ELSE IF e = "if" THEN <<"x">>
                   ELSE IF e = "for" THEN <<"proto">>
                   ELSE <<>>]
    /\ wContent = [e \in WalkEls |-> <<>>]
    /\ wRoot = "top"
    /\ wWasOn = FALSE
    /\ wStack = <<>>
    /\ wOrder = <<>>
    /\ wPc = "idle"

\* renderTree(el): if (el.isConnected) traverseDom(el, ...)
WalkStart(el) ==
    /\ wPc # "run"
    /\ el \in Existing(wKids, wContent)
    /\ wRoot' = el
    /\ wWasOn' = IsConnected(wKids, el)
    /\ wOrder' = <<>>
    /\ IF IsConnected(wKids, el)
       THEN wStack' = <<el>> /\ wPc' = "run"
       ELSE wStack' = <<>> /\ wPc' = "done"
    /\ UNCHANGED <<wKids, wContent, notWalk>>

\* one round of the while loop: pop, processElement, push the children
WalkStep(show, n) ==
    /\ wPc = "run" /\ wStack # <<>>
    /\ LET el == wStack[Len(wStack)]
           rest == SubSeq(wStack, 1, Len(wStack) - 1)
           doc == IF el = "if" THEN WalkIf(wKids, wContent, show)
                  ELSE IF el = "for" THEN WalkFor(wKids, wContent, n)
                  ELSE [kids |-> wKids, content |-> wContent]
       IN  /\ el = "if" \/ show
           /\ el = "for" \/ n = 0
           /\ wKids' = doc.kids
           /\ wContent' = doc.content
           /\ wOrder' = Append(wOrder, el)
           /\ wStack' = PushChildren(rest, doc.kids[el])
    /\ UNCHANGED <<wRoot, wWasOn, wPc, notWalk>>

\* the stack is empty: traverseDom returns
WalkEnd ==
    /\ wPc = "run" /\ wStack = <<>>
    /\ wPc' = "done"
    /\ UNCHANGED <<wKids, wContent, wRoot, wWasOn, wStack, wOrder, notWalk>>

WalkNext ==
    \/ \E el \in WalkEls : WalkStart(el)
    \/ \E show \in BOOLEAN, n \in 0..Len(LoopClones) : WalkStep(show, n)
    \/ WalkEnd

-----------------------------------------------------------------------------
(***************************************************************************)
(* <phoebe-for var="t" in="todos" index="i"> whose item elements carry a   *)
(* phoebe:onclick attribute.                                               *)
(***************************************************************************)
MaxItems == 2

EvItems == {"a", "b", "c"}
EvArrays == UNION {[1..n -> EvItems] : n \in 0..MaxItems}
NoScope == [kind |-> "none", item |-> "", index |-> -1]

\* the contexts PhoebeFor.render stores: ctx[varName] = item, ctx[indexName] = index
LoopContexts(items) == [i \in 1..Len(items) |-> [item |-> items[i], index |-> i - 1]]

\* the listener's renderer.buildScope(el): the loop context of the item element
ScopeAtEvent(ctx, items, p) ==
    [kind |-> "click", item |-> ctx[p].item, index |-> ctx[p].index]

\* the document was rendered once
EvInit ==
    /\ evState \in EvArrays
    /\ evCtx = LoopContexts(evState)
    /\ evPending = FALSE
    /\ evLast = NoScope

\* the listeners of a specification that does not use them
EvIdle == EvInit /\ evState = <<>>

\* the program replaces, shortens or extends the array: schedule(rootNode)
EvMutate(items) ==
    /\ items # evState
    /\ evState' = items
    /\ evPending' = TRUE
    /\ UNCHANGED <<evCtx, evLast, notEv>>

\* the debounce timer fires: PhoebeFor.render stores the contexts anew
EvRender ==
    /\ evPending
    /\ evPending' = FALSE
    /\ evCtx' = LoopContexts(evState)
    /\ UNCHANGED <<evState, evLast, notEv>>

\* a click on the p-th item element: js.exec(expr, {...buildScope(el), event})
EvClick(p) ==
    /\ p \in 1..Len(evCtx)
    /\ evLast' = ScopeAtEvent(evCtx, evState, p)
    /\ UNCHANGED <<evState, evCtx, evPending, notEv>>

EvNext ==
    \/ \E items \in EvArrays : EvMutate(items)
    \/ EvRender
    \/ \E p \in 1..MaxItems : EvClick(p)

\* the state object of a specification that does not use it
StateIdle == StateInit /\ fields = (CHOOSE f \in InitialValues : TRUE)

InitState == StateInit /\ SchedInit /\ ScopeIdle /\ ForIdle /\ IfIdle /\ ClsIdle /\ TravIdle /\ TimerInit /\ BindIdle /\ TplIdle /\ WalkInit /\ EvIdle
InitSched == SchedInit /\ StateIdle /\ ScopeIdle /\ ForIdle /\ IfIdle /\ ClsIdle /\ TravIdle /\ TimerInit /\ BindIdle /\ TplIdle /\ WalkInit /\ EvIdle
InitScope == ScopeInit /\ StateIdle /\ SchedInit /\ ForIdle /\ IfIdle /\ ClsIdle /\ TravIdle /\ TimerInit /\ BindIdle /\ TplIdle /\ WalkInit /\ EvIdle
InitFor == ForInit /\ StateIdle /\ SchedInit /\ ScopeIdle /\ IfIdle /\ ClsIdle /\ TravIdle /\ TimerInit /\ BindIdle /\ TplIdle /\ WalkInit /\ EvIdle
InitIf == IfInit /\ StateIdle /\ SchedInit /\ ScopeIdle /\ ForIdle /\ ClsIdle /\ TravIdle /\ TimerInit /\ BindIdle /\ TplIdle /\ WalkInit /\ EvIdle
InitCls == ClsInit /\ StateIdle /\ SchedInit /\ ScopeIdle /\ ForIdle /\ IfIdle /\ TravIdle /\ TimerInit /\ BindIdle /\ TplIdle /\ WalkInit /\ EvIdle
InitTrav == TravInit /\ StateIdle /\ SchedInit /\ ScopeIdle /\ ForIdle /\ IfIdle /\ ClsIdle /\ TimerInit /\ BindIdle /\ TplIdle /\ WalkInit /\ EvIdle
InitTimer == TimerInit /\ StateIdle /\ SchedInit /\ ScopeIdle /\ ForIdle /\ IfIdle /\ ClsIdle /\ TravIdle /\ BindIdle /\ TplIdle /\ WalkInit /\ EvIdle
InitBind == BindInit /\ StateIdle /\ SchedInit /\ ScopeIdle /\ ForIdle /\ IfIdle /\ ClsIdle /\ TravIdle /\ TimerInit /\ TplIdle /\ WalkInit /\ EvIdle
InitTpl == TplInit /\ StateIdle /\ SchedInit /\ ScopeIdle /\ ForIdle /\ IfIdle /\ ClsIdle /\ TravIdle /\ TimerInit /\ BindIdle /\ WalkInit /\ EvIdle
InitWalk == WalkInit /\ StateIdle /\ SchedInit /\ ScopeIdle /\ ForIdle /\ IfIdle /\ ClsIdle /\ TravIdle /\ TimerInit /\ BindIdle /\ TplIdle /\ EvIdle
InitEv == EvInit /\ StateIdle /\ SchedInit /\ ScopeIdle /\ ForIdle /\ IfIdle /\ ClsIdle /\ TravIdle /\ TimerInit /\ BindIdle /\ TplIdle /\ WalkInit

SpecState == InitState /\ [][StateNext]_vars

SpecSched == InitSched /\ [][SchedNext]_vars

SpecScope == InitScope /\ [][ScopeNext]_vars

SpecFor == InitFor /\ [][ForNext]_vars

SpecIf == InitIf /\ [][IfNext]_vars

SpecCls == InitCls /\ [][ClsNext]_vars

SpecTrav == InitTrav /\ [][TravNext]_vars

SpecTimer == InitTimer /\ [][TimerNext]_vars

SpecBind == InitBind /\ [][BindNext]_vars

SpecTpl == InitTpl /\ [][TplNext]_vars

SpecWalk == InitWalk /\ [][WalkNext]_vars

SpecEv == InitEv /\ [][EvNext]_vars

\* C2: a write of the value a read of the same property returns schedules no
\* render; a write of another value schedules one.
C2_SameValueWriteSchedulesNothing ==
    lastOp.op = "write" =>
        /\ lastOp.same => lastOp.sched = 0
        /\ lastOp.other => lastOp.sched > 0

\* C3: every underlying object has exactly one wrapper, and no wrapper wraps
\* a wrapper.
C3_OneWrapperPerObject ==
    /\ \A p \in 1..Len(proxies) : proxies[p].t = "raw"
    /\ \A p, q \in 1..Len(proxies) :
          Underlying(proxies, Proxy(p)) = Underlying(proxies, Proxy(q)) => p = q

\* C4: when the timer's flush has run to its end (no call of schedule was
\* made while it ran), every element under a root that was pending when the
\* timer fired was processed by exactly one renderTree traversal.
C4_EachElementRenderedOnce ==
    (pc = "idle" /\ outcome = "complete" /\ flushCalls = 0) =>
        \A e \in Els :
            renderCount[e] = IF \E p \in firedPending : Contains(p, e) THEN 1 ELSE 0

\* C5: no pending root is a strict descendant of another pending root.
C5_NoPendingDescendant ==
    \A x, y \in Pending(rerenderEls) : x # y => ~ Contains(x, y)

\* C6: whenever roots are pending and no flush is running, a debounce timer
\* is armed (also after a flush that an exception aborted).
C6_PendingImpliesTimerArmed ==
    (pc = "idle" /\ Pending(rerenderEls) # {}) => timers # <<>>

\* C7: no renderTree of a scheduled root begins before a full debounce delay
\* has passed since the call of schedule that opened its batch.
C7_NoRenderBeforeDelay == ~ early

\* the value the nearest context provider binds to name n, seen from el:
\* el's own loop context, then each ancestor's with and loop context
RECURSIVE NearestBinding(_, _, _)
NearestBinding(el, e, n) ==
    IF e = rootNode THEN Absent
    ELSE IF e # el /\ withContextValue[e].b[n] # Absent
    THEN withContextValue[e].b[n]
    ELSE IF loopContextValue[e].b[n] # Absent
    THEN loopContextValue[e].b[n]
    ELSE NearestBinding(el, scopeParent[e], n)

\* C1: the scope buildScope returns for an element binds every name to the
\* value of the nearest context-providing ancestor that defines it.
C1_NearerContextWins ==
    walk >= 1 =>
        LET el == Preorder[walk] IN
        \A n \in Names :
            NearestBinding(el, el, n) # Absent =>
                scopeOf[el][n] = NearestBinding(el, el, n)


\* the keys of an iterable's items, and whether a sequence repeats no value
KeysOf(items) == [i \in 1..Len(items) |-> items[i].id]
Distinct(q) == \A i, j \in 1..Len(q) : q[i] = q[j] => i = j

\* the context the i-th item of the iterable gives its element
CtxOf(items, i) ==
    [def |-> TRUE,
     item |-> IF forHasVar THEN items[i] ELSE NoItem,
     index |-> IF forHasIndex THEN i - 1 ELSE -1]

\* what a keyed render of keys K2 after one of keys K1 leaves: one item
\* element per key of K2 in K2's order, each carrying its item's context;
\* the element of a key in both K1 and K2 is the node it was; the element of
\* a key not in K1 is a new clone; the element of a key only in K1 is gone
\* from the loop and from the index
Reconciled ==
    LET K1 == KeysOf(lastIter)
        K2 == KeysOf(lastIter')
    IN  /\ Len(forChildren') = Len(K2)
        /\ Distinct(forChildren')
        /\ \A i \in 1..Len(K2) :
               /\ forChildren'[i] = keyElements'.map[K2[i]]
               /\ itemCtx'[forChildren'[i]] = CtxOf(lastIter', i)
        /\ \A k \in Range(K1) \cap Range(K2) :
               /\ keyElements.map[k] \in Range(forChildren)
               /\ keyElements'.map[k] = keyElements.map[k]
        /\ \A k \in Range(K2) \ Range(K1) :
               keyElements'.map[k] \notin Range(forChildren)
        /\ \A k \in Range(K1) \ Range(K2) :
               /\ keyElements.map[k] \notin Range(forChildren')
               /\ keyElements'.map[k] = 0

\* a step that is a render of a keyed loop after an earlier render of it,
\* both iterables with distinct keys
KeyedRerender ==
    /\ forKeyed /\ isInitDone
    /\ forConnected /\ forConnected'
    /\ Distinct(KeysOf(lastIter)) /\ Distinct(KeysOf(lastIter'))

C10_NotifiedIffGuardFlipped ==
    /\ ifRenders = 1 => lastEvent = NoEvent
    /\ ifRenders = 2 =>
           /\ lastEvent = "true" <=> (lastShould /\ ~ prevShould)
           /\ lastEvent = "false" <=> (~ lastShould /\ prevShould)
    /\ \A i \in 1..(Len(ifEvents) - 1) : ifEvents[i] # ifEvents[i + 1]


\* C11: after every completed render of a conditional element its original
\* children are the live siblings after the template, in their order, when
\* the guard was truthy in that render, and are all in the template
\* otherwise.
C11_ChildrenLiveIffGuard ==
    ifRenders >= 1 =>
        IF lastShould
        THEN ifLive = ifKids /\ ifContent = <<>>
        ELSE ifContent = ifKids /\ ifLive = <<>>

\* C11 happens: an element with two children was shown by one render and
\* hidden by the next
C11_ShownThenHidden ==
    /\ ifRenders = 2 /\ prevShould /\ ~ lastShould
    /\ ifKids = <<1, 2>> /\ ifContent = <<1, 2>> /\ ifLive = <<>>


\* C12: after every render of an element with phoebe:class and
\* phoebe-class:<name> attributes, each toggled class is on the element
\* exactly when its toggle expression was truthy.
C12_ToggledClassIffTruthy ==
    clsRendered => \A c \in Toggled : c \in elClass <=> lastToggle[c]


C14_ReattachCancelsCleanup ==
    /\ [](forConnected => ~ cleanupTimeoutHandle)
    /\ [][(~ forConnected /\ cleanupTimeoutHandle /\ forConnected')
            => (/\ ~ cleanupTimeoutHandle'
                /\ UNCHANGED <<forChildren, keyElements, itemCtx>>)]_vars

\* C14 happens: a keyed loop with two item elements was detached and
\* attached again before its timer fired, and still has both and its index
C14_Reattached ==
    /\ reattached /\ forConnected /\ ~ cleanupTimeoutHandle
    /\ forKeyed /\ keyElements.def /\ Len(forChildren) = 2
    /\ \A i \in 1..2 : forChildren[i] = keyElements.map[lastIter[i].id]


\* C15: an exception of a read expression ends the traversal at once: no
\* later expression of the element and no element later in document order
\* is processed in that pass; an exception of a write or exec expression is
\* swallowed, so a traversal in which no read expression threw evaluates
\* every expression of every element.
C15_GetAbortsSetExecSwallowed ==
    /\ travPc = "aborted" =>
           /\ travCur # NoEl
           /\ travDirs[travCur][travRan[travCur]] = "get"
           /\ \A e \in TravEls :
                  DocPos(e) > DocPos(travCur) => e \notin travVisited /\ travRan[e] = 0
    /\ travPc = "run" => ~ travGetThrew
    /\ travPc = "complete" =>
           /\ ~ travGetThrew
           /\ travVisited = TravEls
           /\ \A e \in TravEls : travRan[e] = Len(travDirs[e])

\* C15 happens: a write or exec expression threw and the pass went on, then
\* the read expression of the second element threw and the pass stopped
C15_SwallowedThenAborted ==
    /\ travPc = "aborted" /\ travSwallowed >= 1
    /\ travCur = "e2" /\ travVisited = {"e1", "e2"}


\* an "every" attribute the documentation allows: a number followed by the
\* unit s or ms
WellFormedEvery(every) ==
    LET t == Trim(every)
        n == DigitPrefix(t)
    IN  n > 0 /\ SubSeq(t, n + 1, Len(t)) \in {<<"s">>, <<"m", "s">>}

\* C16: at most one interval is active for the element, none while it is
\* detached, none when "do" / "every" were invalid at attachment, and the
\* first render after an attachment with valid attributes starts a fresh
\* interval.
C16_TimerLifecycle ==
    /\ [](Cardinality(windowIntervals) <= 1)
    /\ [](~ timerConnected => windowIntervals = {})
    /\ [](windowIntervals # {} =>
             timerAttrs.do # "" /\ WellFormedEvery(timerAttrs.every))
    /\ [][(/\ timerConnected /\ ~ timerRendered /\ timerRendered'
            /\ timerAttrs.do # "" /\ WellFormedEvery(timerAttrs.every))
           => (/\ timerHandle' = nextHandle
               /\ windowIntervals' = {nextHandle}
               /\ nextHandle \notin windowIntervals)]_vars


\* how often x occurs in q, and q without x
Occ(q, x) == Cardinality({i \in 1..Len(q) : q[i] = x})
Others(q, x) == SelectSeq(q, LAMBDA y : y # x)

\* the control shows the value: a text control holds its text, a checkbox
\* is checked iff the array has its value or the value is true, a radio iff
\* the value is its value, a number control holds the number and is empty
\* when there is none
Shows(type, value, val, checked) ==
    IF type = "text"
    THEN val = (IF value.t = "str" THEN value.s
                ELSE IF value.t = "num" THEN NumToStr(value.n) ELSE <<>>)
    ELSE IF type = "checkbox"
    THEN checked <=> (IF value.t = "arr" THEN Occ(value.items, val) > 0 ELSE value.b)
    ELSE IF type = "radio"
    THEN checked <=> value = Str(val)
    ELSE IF value.t = "num" THEN val = NumToStr(value.n) ELSE val = <<>>

\* the bound value after an input event matches the control
Matches(type, before, after, val, checked) ==
    IF type = "text" THEN after = Str(val)
    ELSE IF type = "checkbox"
    THEN IF before.t = "arr"
         THEN /\ after.t = "arr"
              /\ Others(after.items, val) = Others(before.items, val)
              /\ Occ(after.items, val) =
                    (IF checked
                     THEN (IF Occ(before.items, val) = 0 THEN 1 ELSE Occ(before.items, val))
                     ELSE (IF Occ(before.items, val) = 0 THEN 0 ELSE Occ(before.items, val) - 1))
         ELSE after = Bool(checked)
    ELSE IF type = "radio"
    THEN after = (IF checked THEN Str(val) ELSE before)
    ELSE IF val = <<>> THEN after = NaNValue
         ELSE after.t = "num" /\ NumToStr(after.n) = val

\* C17 as stated: after every render the control shows the bound value, and
\* after every input event the bound value matches the control.
C17_RenderShowsInputWrites ==
    [][/\ bindOp'.kind = "render" => Shows(bindType, bindState', elValue', elChecked')
       /\ bindOp'.kind = "input" =>
              Matches(bindType, bindState, bindState', elValue', elChecked')]_vars

\* C17: after every render the control shows the bound value, except that
\* a number control keeps what it displays when the value is NaN; after
\* every input event the bound value matches the control (the checkbox value
\* is added to or removed from the array exactly once, a radio writes its
\* value only when checked, a number control writes a number).
C17_RenderShowsUnlessNaN ==
    [][/\ bindOp'.kind = "render" =>
              IF bindType = "number" /\ bindState.t = "nan"
              THEN UNCHANGED <<elValue, elChecked, bindState>>
              ELSE Shows(bindType, bindState', elValue', elChecked')
       /\ bindOp'.kind = "input" =>
              Matches(bindType, bindState, bindState', elValue', elChecked')]_vars

\* C17 happens: the user unchecks the checkbox of a rendered element and its
\* value leaves the bound array
C17_UncheckedRemoved ==
    /\ bindOp.kind = "input" /\ bindType = "checkbox" /\ boundModel
    /\ ~ elChecked
    /\ bindPrev = Arr(<<ValueAttr, <<"b">>>>)
    /\ bindState = Arr(<<(<<"b">>)>>)

\* C18: however often the element is rendered, it has at most one input
\* listener of phoebe-bind and at most one listener per event name of
\* phoebe:on<event>, so one event runs each directive's expression once.
C18_OneListenerPerEvent ==
    /\ bindListeners <= 1
    /\ \A name \in EventNames : evListeners[name] <= 1
    /\ boundModel =>
          /\ bindListeners = 1
          /\ \A name \in bindEvents : evListeners[name] = 1
    /\ bindOp.kind = "input" =>
          /\ bindOp.writes = 1
          /\ bindOp.execs = (IF "input" \in bindEvents THEN 1 ELSE 0)
    /\ bindOp.kind = "click" => bindOp.execs = 1

\* C18 happens: the element was rendered at least twice, then one input event
\* ran the binding and the phoebe:oninput expression once each
C18_RerenderedThenInput ==
    /\ rerendered
    /\ bindOp = [kind |-> "input", writes |-> 1, execs |-> 1]


\* the elements strictly above e, below rootNode
RECURSIVE StrictAncestors(_)
StrictAncestors(e) ==
    IF scopeParent[e] = rootNode THEN {}
    ELSE {scopeParent[e]} \cup StrictAncestors(scopeParent[e])

\* C19: a scope holds a value of a <phoebe-with> only for an element below
\* a <phoebe-with> that binds that name; the sibling of the <phoebe-with>
\* inside the loop item sees the loop's value for the loop variable and
\* nothing else.
C19_WithVisibleOnlyBelow ==
    /\ \A e \in ScopeEls, n \in Names :
          scopeOf[e][n] \in WithValues =>
              \E w \in WithEls \cap StrictAncestors(e) : withVar[w] = n
    /\ walk = Len(Preorder) =>
          \A n \in Names :
              scopeOf["sib"][n] = loopContextValue["item"].b[n]

\* C19 happens: both <phoebe-with> elements have bound the loop's variable
\* name and the sibling has been processed after them
C19_SiblingSeesLoopValue ==
    /\ walk = Len(Preorder)
    /\ \A w \in WithEls : withVar[w] = loopVar /\ withContextValue[w].def
    /\ scopeOf["sib"][loopVar] \in LoopItems


\* C20: in every state the program reaches, reading h[k], then any h2[k2],
\* then h[k] again yields the same wrapper both times and the second read
\* creates none; a property whose stored value is a primitive, undefined or
\* an Element / Date / RegExp is read as that value, any other as a wrapper.
C20_SameWrapperTwice ==
    \A h \in held, k \in Keys :
        LET r1 == GetVia(fields, proxies, cache, h, k)
            stored == fields[Underlying(proxies, h).id][k]
        IN  /\ \A h2 \in held \cup {r1.res}, k2 \in Keys :
                  IsProxy(h2) =>
                      LET r2 == GetVia(fields, r1.px, r1.ch, h2, k2)
                          r3 == GetVia(fields, r2.px, r2.ch, h, k)
                      IN  r3.res = r1.res /\ r3.px = r2.px /\ r3.ch = r2.ch
            /\ IF stored.t \in {"prim", "undef", "exempt"}
               THEN r1.res = stored
               ELSE IsProxy(r1.res)

\* C20 happens: the program has read the nested object and holds its wrapper,
\* and that object has a property holding a value that is never wrapped
C20_NestedWrapperHeld ==
    /\ lastOp.op = "read"
    /\ \E h \in held :
          /\ Underlying(proxies, h) = Raw(1)
          /\ fields[1]["b"] = Exempt
          /\ GetVia(fields, proxies, cache, h, "b").res = Exempt


\* C21: within one timer callback no element is processed more than once,
\* also when rendering calls schedule; when the callback has returned, every
\* root that was pending when the timer fired was rendered and nothing is
\* pending.
C21_FlushRendersOnceAndEmpties ==
    /\ \A e \in Els : renderCount[e] <= 1
    /\ (pc = "idle" /\ outcome = "complete") =>
          /\ \A e \in firedPending : renderCount[e] = 1
          /\ Pending(rerenderEls) = {}


\* C22: in every state the scheduler reaches, schedule(el) changes nothing
\* and arms no timer when el is pending or inside a pending element, and it
\* arms a timer only when nothing is pending; no step adds a timer while
\* something is pending.
C22_ScheduleNoOpWhenCovered ==
    /\ [](\A el \in Els :
            LET r == Schedule(rerenderEls, el) IN
            /\ (\E p \in Pending(rerenderEls) : Contains(p, el)) =>
                   r.list = rerenderEls /\ ~ r.arm
            /\ r.arm => Pending(rerenderEls) = {})
    /\ [][Len(timers') > Len(timers) =>
             Pending(rerenderEls) = {} /\ Cardinality(Pending(rerenderEls')) = 1]_vars

\* C22 happens: while an element is rendered and the root is still pending,
\* schedule was called and neither armed a timer nor changed the pending set
C22_CoveredCallDuringFlush ==
    /\ pc = "render" /\ flushCalls = 1
    /\ Pending(rerenderEls) = {rootNode}
    /\ timers = <<>>


\* C28: at most one debounce timer is outstanding at any time.
C28_AtMostOneTimer == Len(timers) <= 1


\* C23: once a keyed loop has rendered, its key index maps every key it
\* holds to a child of the loop element, different keys to different
\* elements, every item element is indexed, and no element is a child twice.
C23_KeyIndexMatchesChildren ==
    (forKeyed /\ isInitDone) =>
        LET indexed == {k \in AllKeys : keyElements.map[k] # 0} IN
        /\ \A k \in indexed : keyElements.map[k] \in Range(forChildren)
        /\ \A j, k \in indexed : keyElements.map[j] = keyElements.map[k] => j = k
        /\ {keyElements.map[k] : k \in indexed} = Range(forChildren)
        /\ Distinct(forChildren)

\* C23 happens: the last render of a keyed loop got a list that repeats a
\* key, after a render that had left other elements behind
C23_DuplicateKeysRendered ==
    /\ forKeyed /\ forConnected /\ lastRender.removed
    /\ Len(lastIter) = 3
    /\ lastIter[1].id = lastIter[3].id /\ lastIter[1].id # lastIter[2].id
    /\ Len(forChildren) = 2


\* C24: once the element has been rendered, the stored class snapshot is
\* the class the document gave the element, and the class attribute is that
\* snapshot together with the current value of the phoebe:class expression.
C24_SnapshotIsAuthorClass ==
    clsRendered =>
        /\ originalClass = [def |-> TRUE, v |-> authorClass]
        /\ elClass = originalClass.v \cup lastValue


\* C25: after the first render the template holds one item template with a
\* first element child, whatever the initial children were, and no clone of
\* it yields null.
C25_TemplateHasElement ==
    tplInit =>
        /\ FirstElementChild(tplContent) = "element"
        /\ tplContent.wrapped \/ Len(Counted(tplContent.nodes)) = 1
        /\ tplClone # "null"


\* the elements of the tree under el in document pre-order
RECURSIVE PreorderOf(_, _)
RECURSIVE PreorderAll(_, _, _)
PreorderOf(kids, el) == <<el>> \o PreorderAll(kids, kids[el], 1)
PreorderAll(kids, q, i) ==
    IF i > Len(q) THEN <<>>
    ELSE PreorderOf(kids, q[i]) \o PreorderAll(kids, q, i + 1)

\* C26: a finished renderTree(root) has processed nothing when root was not
\* in the document, and otherwise root and the elements below it, each once
\* and in document pre-order, the items a loop created in this pass included;
\* at no time has it processed an element that is inside a template.
C26_PreorderOfAttached ==
    /\ wPc = "done" =>
          wOrder = (IF wWasOn THEN PreorderOf(wKids, wRoot) ELSE <<>>)
    /\ \A i \in 1..Len(wOrder) :
          /\ IsConnected(wKids, wOrder[i])
          /\ \A j \in 1..Len(wOrder) : wOrder[i] = wOrder[j] => i = j

\* C26 happens: one pass over the whole document hid the conditional's child
\* and created two loop items, and processed the items
C26_ItemsOfThisPassProcessed ==
    /\ wPc = "done" /\ wRoot = "top"
    /\ wContent["tplIf"] = <<"x">>
    /\ wOrder = <<"top", "if", "tplIf", "for", "tplFor", "i1", "i2", "end">>


\* C27: the scope a listener on a loop item runs with holds an index inside
\* the current array and the item the array has at that index.
C27_ListenerScopeIsCurrent ==
    [][evLast'.kind = "click" /\ evLast' # evLast =>
          /\ evLast'.index < Len(evState)
          /\ evState[evLast'.index + 1] = evLast'.item]_vars


\* C29: once a conditional element is initialised its original child nodes
\* are, each exactly once and in their original order, either all live after
\* the template or all in the template; whenever it is showing (the template
\* is empty) the live nodes are the original children.
C29_ShowHideRoundTrip ==
    ifInitDone =>
        /\ ifContent = <<>> => ifLive = ifKids
        /\ ifContent \o ifLive = ifKids
        /\ ifContent = <<>> \/ ifLive = <<>>

\* C29 happens: three children were shown, hidden and shown again
C29_ShownHiddenShown ==
    /\ ifEvents = <<"false", "true">> /\ lastEvent = "true"
    /\ ifKids = <<1, 2, 3>> /\ ifLive = <<1, 2, 3>> /\ ifContent = <<>>

=============================================================================
